---- MODULE Spec2Model ----
(***************************************************************************)
(* Resume analysis pipeline of the ATS scorer: the scoring engine          *)
(* (utils/scorer.py), the location privacy detector                        *)
(* (utils/location_detector.py), the job-description comparator            *)
(* (utils/jd_comparator.py), the progress indicator                        *)
(* (utils/progress_indicator.py) and the orchestrator run_analysis         *)
(* (pages/1_ATS_Scorer.py) with the session caches it goes through.        *)
(*                                                                         *)
(* Numbers.  Scores are Python floats.  Every score the model feeds in is  *)
(* a multiple of 0.25, so every intermediate value is an exact binary      *)
(* float and round(x, 1) is round-half-to-even on the exact value.  The    *)
(* model counts scores in twentieths of a point (0.05): a quarter point is *)
(* 5 units and a tenth, the grain of round(x, 1), is 2 units.              *)
(***************************************************************************)
EXTENDS Integers, Sequences, FiniteSets, Bags, TLC

VARIABLES
    \* ---- st.session_state ----
    in_streamlit,            \* isinstance(st.session_state, SessionState)
    score_cache,             \* st.session_state.score_cache, in insertion order
    skill_validation_cache,  \* st.session_state.skill_validation_cache
    analysis_cache,          \* st.session_state.analysis_cache
    progress_set,            \* the three progress keys are in the session state
    progress_percent,        \* st.session_state['progress_percent']
    progress_stage,          \* name of st.session_state['progress_stage'], or None
    progress_stage_index,    \* st.session_state['progress_stage_index']
    \* ---- one press of "Analyze Resume" ----
    pc,                      \* where run_analysis stands
    req,                     \* arguments of the running run_analysis
    results,                 \* the results dictionary of run_analysis
    run_jd_keywords,         \* local jd_keywords of run_analysis
    runs,                    \* analyses started in this session
    \* ---- functions called directly ----
    fn,                      \* which function was called last
    fn_args,                 \* its arguments
    fn_result,               \* what it returned
    returned_refs            \* cached objects a caller still holds: [cache, key]

session_vars == <<in_streamlit, score_cache, skill_validation_cache, analysis_cache>>
progress_vars == <<progress_set, progress_percent, progress_stage, progress_stage_index>>
run_vars == <<pc, req, results, run_jd_keywords, runs>>
fn_vars == <<fn, fn_args, fn_result>>
caller_vars == <<returned_refs>>
vars == <<session_vars, progress_vars, run_vars, fn_vars, caller_vars>>

None == "None"
\* None where the value, when there is one, is a dictionary.
NoneRec == [none |-> TRUE]

\* One score point, in twentieths of a point.
Pt == 2 * 10
\* n quarter points (n * 0.25), in twentieths.
Quarter(n) == n * 5

Min(a, b) == IF a <= b THEN a ELSE b
Max(a, b) == IF a >= b THEN a ELSE b

\* min(hi, max(lo, x)) as written at the end of every component score.
Clamp(x, lo, hi) == Min(hi, Max(lo, x))

\* round(x, 1) for x >= 0 an exact multiple of 0.05: an odd count of
\* twentieths is a tie between two tenths and goes to the even one.
Round1(x) ==
    LET t == x \div 2
    IN  IF x % 2 = 0 THEN x
        ELSE IF t % 2 = 0 THEN 2 * t ELSE 2 * (t + 1)

Range(s) == { s[i] : i \in DOMAIN s }

\* str.lower() on the keyword vocabulary of the model.
Lower(w) ==
    CASE w = "Python" -> "python"
      [] w = "AWS"    -> "aws"
      [] w = "Docker" -> "docker"
      [] OTHER        -> w

LowerSet(kws) == { Lower(kws[i]) : i \in DOMAIN kws }

(***************************************************************************)
(* Scoring engine, utils/scorer.py.  A text is known to the scorer by what *)
(* its regular expressions count in it: bullet lines, quantified           *)
(* achievements and box-drawing glyphs.  A section is known by the length  *)
(* of its content.                                                         *)
(***************************************************************************)
SectionNames == {"experience", "education", "skills", "summary", "projects"}

calculate_formatting_score(sections, text) ==
    LET presence ==
              (IF sections.experience > 50 THEN 3 * Pt ELSE 0)
            + (IF sections.education > 20 THEN 2 * Pt ELSE 0)
            + (IF sections.skills > 10 THEN 2 * Pt ELSE 0)
            + (IF sections.summary > 30 THEN Quarter(6) ELSE 0)
            + (IF sections.projects > 30 THEN Quarter(6) ELSE 0)
        bullet_count == text.bullets
        bullets ==
            IF bullet_count >= 15 THEN 5 * Pt
            ELSE IF bullet_count >= 10 THEN 4 * Pt
            ELSE IF bullet_count >= 5 THEN 3 * Pt
            ELSE IF bullet_count >= 3 THEN 2 * Pt
            ELSE IF bullet_count >= 1 THEN 1 * Pt
            ELSE 0
        section_headers_found == Cardinality({ n \in SectionNames : sections[n] > 0 })
        structure ==
            IF section_headers_found >= 4 THEN 5 * Pt
            ELSE IF section_headers_found >= 3 THEN 4 * Pt
            ELSE IF section_headers_found >= 2 THEN 3 * Pt
            ELSE IF section_headers_found >= 1 THEN 2 * Pt
            ELSE 0
    IN  Clamp(presence + bullets + structure, 0, 20 * Pt)

calculate_keywords_score(resume_keywords, skills, jd_keywords) ==
    LET keyword_count == Len(resume_keywords)
        kw ==
            IF keyword_count >= 20 THEN 10 * Pt
            ELSE IF keyword_count >= 15 THEN 8 * Pt
            ELSE IF keyword_count >= 10 THEN 6 * Pt
            ELSE IF keyword_count >= 5 THEN 4 * Pt
            ELSE IF keyword_count >= 3 THEN 2 * Pt
            ELSE 0
        skills_count == Len(skills)
        sk ==
            IF skills_count >= 15 THEN 10 * Pt
            ELSE IF skills_count >= 10 THEN 8 * Pt
            ELSE IF skills_count >= 7 THEN 6 * Pt
            ELSE IF skills_count >= 5 THEN 4 * Pt
            ELSE IF skills_count >= 3 THEN 2 * Pt
            ELSE 0
        \* "if jd_keywords:" is false for None and for the empty list
        has_jd == jd_keywords # None /\ jd_keywords # <<>>
        jd_kw_set == IF has_jd THEN LowerSet(jd_keywords) ELSE {}
        overlap == Cardinality(LowerSet(resume_keywords) \cap jd_kw_set)
        n == Cardinality(jd_kw_set)
        \* overlap / n >= 0.7 and so on, cross-multiplied
        jd ==
            IF has_jd
            THEN IF 10 * overlap >= 7 * n THEN 5 * Pt
                 ELSE IF 10 * overlap >= 5 * n THEN 4 * Pt
                 ELSE IF 10 * overlap >= 3 * n THEN 3 * Pt
                 ELSE IF 10 * overlap >= 2 * n THEN 2 * Pt
                 ELSE IF 10 * overlap >= 1 * n THEN 1 * Pt
                 ELSE 0
            ELSE IF keyword_count >= 10 THEN 3 * Pt ELSE 0
    IN  Clamp(kw + sk + jd, 0, 25 * Pt)

calculate_content_score(text, action_verbs, grammar_results) ==
    LET action_verb_count == Len(action_verbs)
        verbs ==
            IF action_verb_count >= 15 THEN 10 * Pt
            ELSE IF action_verb_count >= 10 THEN 8 * Pt
            ELSE IF action_verb_count >= 7 THEN 6 * Pt
            ELSE IF action_verb_count >= 5 THEN 4 * Pt
            ELSE IF action_verb_count >= 3 THEN 2 * Pt
            ELSE 0
        achievement_count == text.achievements
        achievements ==
            IF achievement_count >= 10 THEN 5 * Pt
            ELSE IF achievement_count >= 7 THEN 4 * Pt
            ELSE IF achievement_count >= 5 THEN 3 * Pt
            ELSE IF achievement_count >= 3 THEN 2 * Pt
            ELSE IF achievement_count >= 1 THEN 1 * Pt
            ELSE 0
        grammar_penalty == grammar_results.penalty_applied
        \* penalties are multiples of 0.5, so the halving is exact
        grammar_score == Max(0, 10 * Pt - grammar_penalty \div 2)
    IN  Clamp(verbs + achievements + grammar_score, 0, 25 * Pt)

\* calculate_skill_validation_score without its min/max.
calculate_skill_validation_score_Unclamped(validation_results) ==
    validation_results.validation_score

calculate_skill_validation_score(validation_results) ==
    Clamp(validation_results.validation_score, 0, 15 * Pt)

calculate_ats_compatibility_score(text, location_results, sections) ==
    LET location_penalty == location_results.penalty_applied
        special_char_count == text.glyphs
        glyph_penalty ==
            IF special_char_count > 20 THEN 2 * Pt
            ELSE IF special_char_count > 10 THEN 1 * Pt
            ELSE 0
        short_sections ==
            Cardinality({ n \in {"experience", "education", "skills"} :
                            sections[n] > 0 /\ sections[n] < 20 })
        short_penalty ==
            IF short_sections >= 2 THEN 2 * Pt
            ELSE IF short_sections >= 1 THEN 1 * Pt
            ELSE 0
        clean_bonus ==
            IF sections.experience > 100 /\ sections.skills > 20 THEN 1 * Pt ELSE 0
    IN  Clamp(15 * Pt - location_penalty - glyph_penalty - short_penalty + clean_bonus,
              0, 15 * Pt)

\* The penalties ledger: a name is in it only when its value is positive.
PenaltiesOf(grammar_results, location_results) ==
    LET vals == [grammar |-> grammar_results.penalty_applied,
                 location_privacy |-> location_results.penalty_applied]
    IN  [ n \in { m \in {"grammar", "location_privacy"} : vals[m] > 0 } |-> vals[n] ]

\* The bonuses map with the two skill-validation tiers tested one after the
\* other instead of if / elif.
BonusesOf_BothTiers(grammar_results, skill_validation_results) ==
    LET p == skill_validation_results.validation_percentage
        names ==
              (IF p >= 900 THEN {"excellent_skill_validation"} ELSE {})
            \cup
              (IF p >= 800 THEN {"good_skill_validation"} ELSE {})
            \cup
              (IF grammar_results.total_errors = 0 THEN {"perfect_grammar"} ELSE {})
    IN  [ n \in names |-> IF n = "good_skill_validation" THEN 1 * Pt ELSE 2 * Pt ]

\* The bonuses map; validation_percentage is in thousandths.
BonusesOf(grammar_results, skill_validation_results) ==
    LET p == skill_validation_results.validation_percentage
        names ==
              (IF p >= 900 THEN {"excellent_skill_validation"}
               ELSE IF p >= 800 THEN {"good_skill_validation"} ELSE {})
            \cup
              (IF grammar_results.total_errors = 0 THEN {"perfect_grammar"} ELSE {})
    IN  [ n \in names |-> IF n = "good_skill_validation" THEN 1 * Pt ELSE 2 * Pt ]

SumMap(f) ==
    LET RECURSIVE S(_)
        S(D) == IF D = {} THEN 0
                ELSE LET d == CHOOSE x \in D : TRUE IN f[d] + S(D \ {d})
    IN  S(DOMAIN f)

\* apply_penalties_and_bonuses taking the ledger's penalties off the score.
apply_penalties_and_bonuses_Subtracting(base_score, grammar_results, location_results, skill_validation_results) ==
    LET penalties == PenaltiesOf(grammar_results, location_results)
        bonuses == BonusesOf(grammar_results, skill_validation_results)
        adjusted_score == base_score + SumMap(bonuses) - SumMap(penalties)
    IN  <<Clamp(adjusted_score, 0, 100 * Pt), penalties, bonuses>>

\* Returns <<adjusted_score, penalties, bonuses>>.
apply_penalties_and_bonuses(base_score, grammar_results, location_results, skill_validation_results) ==
    LET penalties == PenaltiesOf(grammar_results, location_results)
        bonuses == BonusesOf(grammar_results, skill_validation_results)
        adjusted_score == base_score + SumMap(bonuses)
    IN  <<Clamp(adjusted_score, 0, 100 * Pt), penalties, bonuses>>

_compute_overall_score(text, sections, skills, keywords, action_verbs, skill_validation_results, grammar_results, location_results, jd_keywords) ==
    LET formatting_score == calculate_formatting_score(sections, text)
        keywords_score == calculate_keywords_score(keywords, skills, jd_keywords)
        content_score == calculate_content_score(text, action_verbs, grammar_results)
        skill_validation_score == calculate_skill_validation_score(skill_validation_results)
        ats_compatibility_score ==
            calculate_ats_compatibility_score(text, location_results, sections)
        base_score == formatting_score + keywords_score + content_score
                        + skill_validation_score + ats_compatibility_score
        adj == apply_penalties_and_bonuses(base_score, grammar_results,
                                           location_results, skill_validation_results)
    IN  [overall_score |-> Round1(adj[1]),
         formatting_score |-> Round1(formatting_score),
         keywords_score |-> Round1(keywords_score),
         content_score |-> Round1(content_score),
         skill_validation_score |-> Round1(skill_validation_score),
         ats_compatibility_score |-> Round1(ats_compatibility_score),
         penalties |-> adj[2],
         bonuses |-> adj[3]]

(***************************************************************************)
(* Progress indicator, utils/progress_indicator.py.                        *)
(***************************************************************************)
PROCESSING_STAGES ==
    << [name |-> "File Validation",     start_percent |-> 0,  end_percent |-> 10],
       [name |-> "Text Extraction",     start_percent |-> 10, end_percent |-> 25],
       [name |-> "NLP Processing",      start_percent |-> 25, end_percent |-> 45],
       [name |-> "Skill Validation",    start_percent |-> 45, end_percent |-> 60],
       [name |-> "Experience Analysis", start_percent |-> 60, end_percent |-> 75],
       [name |-> "Location Detection",  start_percent |-> 75, end_percent |-> 85],
       [name |-> "Score Calculation",   start_percent |-> 85, end_percent |-> 95],
       [name |-> "Generating Results",  start_percent |-> 95, end_percent |-> 100] >>

StageNames == { PROCESSING_STAGES[i].name : i \in DOMAIN PROCESSING_STAGES }

\* Index of the stage named stage_name, counted from 0 as enumerate() does;
\* -1 when no stage has that name.
StageIndex(stage_name) ==
    IF stage_name \in StageNames
    THEN (CHOOSE i \in DOMAIN PROCESSING_STAGES : PROCESSING_STAGES[i].name = stage_name) - 1
    ELSE -1

initialize_progress ==
    /\ progress_set' = TRUE
    /\ progress_percent' = 0
    /\ progress_stage' = None
    /\ progress_stage_index' = -1

\* The optional percent argument: <<p>> when given, NoPercent when omitted.
NoPercent == << >>

\* update_progress taking the requested percentage as it comes.
TargetPercent_Unclamped(stage_name, percent, current_percent) ==
    LET stage_info == PROCESSING_STAGES[StageIndex(stage_name) + 1]
        target_percent == IF percent # NoPercent THEN percent[1] ELSE stage_info.start_percent
    IN  IF target_percent < current_percent THEN current_percent ELSE target_percent

\* update_progress without the "never decrease" guard.
TargetPercent_Unguarded(stage_name, percent, current_percent) ==
    LET stage_info == PROCESSING_STAGES[StageIndex(stage_name) + 1]
    IN  IF percent # NoPercent
        THEN Max(stage_info.start_percent, Min(percent[1], stage_info.end_percent))
        ELSE stage_info.start_percent

TargetPercent(stage_name, percent, current_percent) ==
    LET stage_info == PROCESSING_STAGES[StageIndex(stage_name) + 1]
        target_percent ==
            IF percent # NoPercent
            THEN Max(stage_info.start_percent, Min(percent[1], stage_info.end_percent))
            ELSE stage_info.start_percent
    IN  IF target_percent < current_percent THEN current_percent ELSE target_percent

\* update_progress showing a stage it does not know as the current one.
update_progress_ShowingUnknownStage(stage_name, percent) ==
    IF stage_name \notin StageNames
    THEN /\ progress_stage' = stage_name
         /\ progress_stage_index' = -1
         /\ UNCHANGED <<progress_set, progress_percent>>
    ELSE /\ progress_set' = TRUE
         /\ progress_percent' = TargetPercent(stage_name, percent, progress_percent)
         /\ progress_stage' = stage_name
         /\ progress_stage_index' = StageIndex(stage_name)

update_progress(stage_name, percent) ==
    IF stage_name \notin StageNames
    THEN UNCHANGED progress_vars
    ELSE /\ progress_set' = TRUE
         /\ progress_percent' = TargetPercent(stage_name, percent, progress_percent)
         /\ progress_stage' = stage_name
         /\ progress_stage_index' = StageIndex(stage_name)

complete_progress ==
    /\ progress_set' = TRUE
    /\ progress_percent' = 100
    /\ progress_stage' = PROCESSING_STAGES[Len(PROCESSING_STAGES)].name
    /\ progress_stage_index' = Len(PROCESSING_STAGES) - 1

get_current_progress ==
    [percent |-> progress_percent, stage |-> progress_stage,
     stage_index |-> progress_stage_index]

(***************************************************************************)
(* Location privacy detector, utils/location_detector.py.  A mention is a  *)
(* record [type, start]: type is "gpe" or "loc" for a span of the NLP      *)
(* annotator (its label in lower case), "address" or "zip" for a match of  *)
(* the two regular expressions; start is its character offset.  near is    *)
(* what the 400 characters around the offset hold: "experience",           *)
(* "education" or "other".                                                 *)
(***************************************************************************)
determine_section(near, location_start) ==
    IF location_start < 200 THEN "contact_header"
    ELSE IF near = "experience" THEN "experience"
    ELSE IF near = "education" THEN "education"
    ELSE "other"

is_acceptable_location(location_type, section) ==
    IF location_type = "address" THEN FALSE
    ELSE IF location_type = "zip" THEN FALSE
    ELSE IF section = "contact_header" /\ location_type \in {"city", "state", "gpe"} THEN TRUE
    ELSE FALSE

\* assess_privacy_risk calling three mentions "multiple" already.
assess_privacy_risk_FromThree(detected_locations) ==
    LET has_address == \E i \in DOMAIN detected_locations : detected_locations[i].type = "address"
        has_zip == \E i \in DOMAIN detected_locations : detected_locations[i].type = "zip"
        has_multiple_locations == Len(detected_locations) >= 3
    IN  IF detected_locations = <<>> THEN "none"
        ELSE IF has_address \/ has_zip THEN "high"
        ELSE IF has_multiple_locations THEN "medium"
        ELSE "low"

assess_privacy_risk(detected_locations) ==
    LET has_address == \E i \in DOMAIN detected_locations : detected_locations[i].type = "address"
        has_zip == \E i \in DOMAIN detected_locations : detected_locations[i].type = "zip"
        has_multiple_locations == Len(detected_locations) > 3
    IN  IF detected_locations = <<>> THEN "none"
        ELSE IF has_address \/ has_zip THEN "high"
        ELSE IF has_multiple_locations THEN "medium"
        ELSE "low"

\* calculate_location_penalty with one penalty for every high risk.
calculate_location_penalty_Flat(detected_locations, privacy_risk) ==
    IF privacy_risk = "none" THEN 0
    ELSE IF privacy_risk = "high" THEN 4
    ELSE IF privacy_risk = "medium" THEN 3
    ELSE IF privacy_risk = "low" THEN 2
    ELSE 0

\* In whole points.
calculate_location_penalty(detected_locations, privacy_risk) ==
    LET has_address == \E i \in DOMAIN detected_locations : detected_locations[i].type = "address"
        has_zip == \E i \in DOMAIN detected_locations : detected_locations[i].type = "zip"
    IN  IF privacy_risk = "none" THEN 0
        ELSE IF has_address /\ has_zip THEN 5
        ELSE IF has_address \/ has_zip THEN 4
        ELSE IF privacy_risk = "medium" THEN 3
        ELSE IF privacy_risk = "low" THEN 2
        ELSE 0

\* all_locations: the mentions of the three detectors, NER first, then
\* addresses, then zip codes, each [type, start, near].
\* A message is a record: its text (without the leading emoji) and the values
\* formatted into it.
generate_privacy_recommendations(detected_locations) ==
    LET addresses == SelectSeq(detected_locations, LAMBDA l : l.type = "address")
        zip_codes == SelectSeq(detected_locations, LAMBDA l : l.type = "zip")
        non_header_locations ==
            SelectSeq(detected_locations,
                      LAMBDA l : l.section # "contact_header" /\ l.type \in {"gpe", "loc"})
        Found(locs) ==
            [ i \in 1 .. Min(3, Len(locs)) |->
                [text |-> "  Found: '{text}' in {section}", section |-> locs[i].section] ]
    IN  IF detected_locations = <<>>
        THEN << [text |-> "No privacy concerns detected. Your resume doesn't contain detailed location information."] >>
        ELSE (IF addresses # <<>>
              THEN << [text |-> "Remove full street addresses from your resume. ATS systems don't need this information, and it poses a privacy risk."] >>
                       \o Found(addresses)
              ELSE <<>>)
          \o (IF zip_codes # <<>>
              THEN << [text |-> "Remove zip codes from your resume. This level of detail is unnecessary and can be used to identify your location."] >>
                       \o Found(zip_codes)
              ELSE <<>>)
          \o (IF Len(non_header_locations) > 3
              THEN << [text |-> "Consider reducing location mentions throughout your resume. City/state in the contact header is sufficient."] >>
              ELSE <<>>)
          \o (IF addresses # <<>> \/ zip_codes # <<>>
              THEN << [text |-> "Best Practice: Include only 'City, State' in your contact header. Remove all other location details."] >>
              ELSE <<>>)

_perform_location_detection(all_locations) ==
    LET with_section ==
            [ i \in DOMAIN all_locations |->
                [type |-> all_locations[i].type,
                 start |-> all_locations[i].start,
                 section |-> determine_section(all_locations[i].near, all_locations[i].start)] ]
        problematic_locations ==
            SelectSeq(with_section, LAMBDA l : ~ is_acceptable_location(l.type, l.section))
        privacy_risk == assess_privacy_risk(problematic_locations)
        penalty == calculate_location_penalty(problematic_locations, privacy_risk)
    IN  [location_found |-> Len(problematic_locations) > 0,
         detected_locations |-> problematic_locations,
         privacy_risk |-> privacy_risk,
         recommendations |-> generate_privacy_recommendations(problematic_locations),
         penalty_applied |-> penalty * Pt]

\* The first message of the feedback, by the branch that writes it.
RiskSummary(branch, detected_count) ==
    [text |->
        CASE branch = "none" -> "Excellent! No privacy concerns detected in your resume."
          [] branch = "low" -> "Low privacy risk detected. {detected_count} location mention(s) found, but they appear acceptable."
          [] branch = "medium" -> "Medium privacy risk. {detected_count} location mention(s) found. Consider simplifying location information."
          [] OTHER -> "High privacy risk! {detected_count} detailed location(s) found. Remove sensitive location information immediately.",
     detected_count |-> detected_count]

generate_location_feedback(location_results) ==
    LET privacy_risk == location_results.privacy_risk
        penalty == location_results.penalty_applied
        detected_count == Len(location_results.detected_locations)
    IN  << RiskSummary(IF privacy_risk \in {"none", "low", "medium"} THEN privacy_risk
                       ELSE "high", detected_count) >>
          \o (IF penalty > 0
              THEN << [text |-> "Location privacy issues resulted in a {penalty:.1f} point penalty on your ATS compatibility score.",
                       penalty |-> penalty] >>
              ELSE <<>>)
          \o location_results.recommendations

(***************************************************************************)
(* Job-description comparator, utils/jd_comparator.py.  A similarity is in *)
(* hundredths (0..100); a match percentage is in thousandths of a percent  *)
(* (0..100000), exact for every keyword list of up to 6 entries.           *)
(***************************************************************************)
\* sorted(list(matched)): the model keeps the set, its order plays no part here.
identify_matched_keywords(resume_keywords, jd_kws) ==
    LowerSet(resume_keywords) \cap LowerSet(jd_kws)

identify_missing_keywords_Uncapped(resume_keywords, jd_kws, top_n) ==
    LET missing == LowerSet(jd_kws) \ LowerSet(resume_keywords)
    IN  SelectSeq(jd_kws, LAMBDA kw : Lower(kw) \in missing)

identify_missing_keywords(resume_keywords, jd_kws, top_n) ==
    LET missing == LowerSet(jd_kws) \ LowerSet(resume_keywords)
        missing_ordered == SelectSeq(jd_kws, LAMBDA kw : Lower(kw) \in missing)
    IN  SubSeq(missing_ordered, 1, Min(top_n, Len(missing_ordered)))

calculate_match_percentage(resume_keywords, jd_kws, semantic_similarity) ==
    IF jd_kws = <<>> THEN 0
    ELSE LET matched_keywords == identify_matched_keywords(resume_keywords, jd_kws)
             \* (keyword_overlap * 0.6 + semantic_similarity * 0.4) * 100
             match_percentage ==
                 (60000 * Cardinality(matched_keywords)) \div Len(jd_kws)
                    + 400 * semantic_similarity
         IN  Clamp(match_percentage, 0, 100000)

_perform_jd_comparison(resume_keywords, jd_kws, semantic_similarity, skills_gap) ==
    [semantic_similarity |-> semantic_similarity,
     matched_keywords |-> identify_matched_keywords(resume_keywords, jd_kws),
     missing_keywords |-> identify_missing_keywords(resume_keywords, jd_kws, 15),
     skills_gap |-> skills_gap,
     match_percentage |-> calculate_match_percentage(resume_keywords, jd_kws, semantic_similarity)]

(***************************************************************************)
(* The resumes and job descriptions of the model.  What the parser, the    *)
(* NLP annotator and the embedder return for a given input is fixed per    *)
(* input (they are deterministic services); whether a call of theirs       *)
(* raises is the environment's choice at each call.                        *)
(***************************************************************************)
ResumeFiles == {"resume_a.pdf", "resume_b.pdf"}

\* parse_resume_file: the text of an upload, known by its identity (content)
\* and by what the scorer's regular expressions count in it.
ParsedText(file) ==
    IF file = "resume_a.pdf"
    THEN [id |-> "A", bullets |-> 5, achievements |-> 3, glyphs |-> 0]
    ELSE [id |-> "B", bullets |-> 0, achievements |-> 0, glyphs |-> 12]

\* The embedder installed on the machine of the model finds no pair similar.
InstalledEmbedder == [kind |-> "const", key |-> <<>>, hit |-> 30, miss |-> 30]

\* process_resume_text: sections (by length), skills, projects, keywords,
\* verbs.  experience_text is sections['experience'] as the skill validator
\* reads it: the passage of the section that names skills.
process_resume_text(text) ==
    IF text.id = "A"
    THEN [sections |-> [experience |-> 150, education |-> 30, skills |-> 30,
                        summary |-> 0, projects |-> 40],
          experience_text |-> <<"s", "q", "l">>,
          skills |-> << <<"G", "o">>, <<"A", "W", "S">>, <<"S", "Q", "L">>, <<"G", "i", "t">> >>,
          projects |-> << [title |-> <<"A", "P", "I">>,
                           description |-> <<"g", "o", " ", "o", "n", " ", "a", "w", "s">>] >>,
          keywords |-> <<"python", "aws", "docker", "sql", "api",
                         "linux", "git", "rest", "java", "agile">>,
          action_verbs |-> <<"built", "led", "designed", "shipped", "improved",
                             "reduced", "automated">>]
    ELSE [sections |-> [experience |-> 0, education |-> 0, skills |-> 5,
                        summary |-> 0, projects |-> 0],
          experience_text |-> <<>>,
          skills |-> << <<"C">>, <<"R">> >>,
          projects |-> << [title |-> <<"C", "R", "M">>, description |-> <<>>] >>,
          keywords |-> <<"excel">>,
          action_verbs |-> <<>>]

\* The mentions the three location detectors find in a text.
LocationMentions(text) ==
    IF text.id = "A"
    THEN << [type |-> "gpe", start |-> 20, near |-> "other"],
            [type |-> "gpe", start |-> 400, near |-> "experience"] >>
    ELSE <<>>

\* The one job description of the model, uploaded as a file or pasted.
JdContent == "jd"
extract_jd_keywords(jd_text_content) == <<"Python", "AWS", "kubernetes">>
\* What the embedder and the annotator find for it against any resume:
\* the cosine similarity (hundredths) and the skills gap.
JdFacts == [semantic_similarity |-> 50, skills_gap |-> {"kubernetes"}]

(***************************************************************************)
(* Skill validator, utils/skill_validator.py.  A skill, a title, a         *)
(* description and the experience text are strings, modelled as sequences  *)
(* of one-character strings.  Similarities are in hundredths.              *)
(***************************************************************************)
\* str.lower(), character by character, on the alphabet of the model.
LowerChar(c) ==
    CASE c = "A" -> "a" [] c = "C" -> "c" [] c = "G" -> "g" [] c = "I" -> "i"
      [] c = "L" -> "l" [] c = "M" -> "m" [] c = "P" -> "p" [] c = "Q" -> "q"
      [] c = "R" -> "r" [] c = "S" -> "s" [] c = "W" -> "w"
      [] OTHER -> c

str_lower(s) == [ i \in DOMAIN s |-> LowerChar(s[i]) ]

\* Python's "sub in s": sub is a run of consecutive characters of s.
str_contains(s, sub) ==
    \E i \in 0 .. (Len(s) - Len(sub)) : SubSeq(s, i + 1, i + Len(sub)) = sub

\* An embedder is known by the cosine it gives to a (skill, text) pair:
\* "hit" for the pairs its key picks (by skill or by text), "miss" otherwise.
EmbedderCosine(embedder, skill, text) ==
    IF \/ embedder.kind = "by_skill" /\ embedder.key = skill
       \/ embedder.kind = "by_text" /\ embedder.key = text
    THEN embedder.hit
    ELSE embedder.miss

\* Returns [similarity, encoded]: encoded tells that embedder.encode ran.
calculate_semantic_similarity(skill, text, embedder) ==
    IF skill = <<>> \/ text = <<>>
    THEN [similarity |-> 0, encoded |-> FALSE]
    ELSE [similarity |-> Max(0, Min(100, EmbedderCosine(embedder, skill, text))),
          encoded |-> TRUE]

\* exact_skill_match comparing the characters as they are written.
exact_skill_match_CaseSensitive(skill, text) ==
    IF skill = <<>> \/ text = <<>> THEN FALSE
    ELSE str_contains(text, skill)

exact_skill_match(skill, text) ==
    IF skill = <<>> \/ text = <<>> THEN FALSE
    ELSE str_contains(str_lower(text), str_lower(skill))

\* f"{project.get('title', '')} {project.get('description', '')}"
ProjectText(project) == project.title \o <<" ">> \o project.description

ExperienceSection ==
    <<"E", "x", "p", "e", "r", "i", "e", "n", "c", "e", " ", "S", "e", "c", "t", "i", "o", "n">>

\* The loop over the projects of validate_skill_against_projects, from the
\* state acc = [matching_projects, max_similarity, encoded] it has reached.
RECURSIVE CheckProjects(_, _, _, _, _)
CheckProjects(skill, projects, embedder, threshold, acc) ==
    IF projects = <<>> THEN acc
    ELSE LET project == Head(projects)
             project_text == ProjectText(project)
             sem == calculate_semantic_similarity(skill, project_text, embedder)
             next ==
                 IF exact_skill_match(skill, project_text)
                 THEN [acc EXCEPT !.matching_projects = Append(@, project.title),
                                  !.max_similarity = 100]
                 ELSE [matching_projects |->
                           IF sem.similarity >= threshold
                           THEN Append(acc.matching_projects, project.title)
                           ELSE acc.matching_projects,
                       max_similarity |-> Max(acc.max_similarity, sem.similarity),
                       encoded |-> acc.encoded \/ sem.encoded]
         IN  CheckProjects(skill, Tail(projects), embedder, threshold, next)

\* Returns [is_validated, matching_projects, max_similarity, encoded].
validate_skill_against_projects(skill, projects, experience, embedder, threshold) ==
    LET CheckExperience(after_projects, sem) ==
            IF experience = <<>> THEN after_projects
            ELSE IF exact_skill_match(skill, experience)
            THEN [after_projects EXCEPT
                    !.matching_projects =
                        IF ExperienceSection \in Range(@) THEN @
                        ELSE Append(@, ExperienceSection),
                    !.max_similarity = 100]
            ELSE [after_projects EXCEPT
                    !.matching_projects =
                        IF sem.similarity >= threshold /\ ExperienceSection \notin Range(@)
                        THEN Append(@, ExperienceSection)
                        ELSE @,
                    !.max_similarity = Max(@, sem.similarity),
                    !.encoded = @ \/ sem.encoded]
        Outcome(final) ==
            [is_validated |-> Len(final.matching_projects) > 0,
             matching_projects |-> final.matching_projects,
             max_similarity |-> final.max_similarity,
             encoded |-> final.encoded]
    IN  Outcome(CheckExperience(
            CheckProjects(skill, projects, embedder, threshold,
                          [matching_projects |-> <<>>, max_similarity |-> 0, encoded |-> FALSE]),
            calculate_semantic_similarity(skill, experience, embedder)))

\* The loop over the skills, passing over a skill it has already met.
RECURSIVE ValidateEach_SkippingRepeats(_, _, _, _, _, _)
ValidateEach_SkippingRepeats(skills, projects, experience, embedder, threshold, acc) ==
    IF skills = <<>> THEN acc
    ELSE LET Record(skill, v) ==
                 IF \/ skill \in Range(acc.unvalidated_skills)
                    \/ \E i \in DOMAIN acc.validated_skills :
                           acc.validated_skills[i].skill = skill
                 THEN acc
                 ELSE IF v.is_validated
                 THEN [acc EXCEPT !.validated_skills =
                                      Append(@, [skill |-> skill,
                                                 projects |-> v.matching_projects,
                                                 similarity |-> v.max_similarity]),
                                  !.encoded = @ \/ v.encoded]
                 ELSE [acc EXCEPT !.unvalidated_skills = Append(@, skill),
                                  !.encoded = @ \/ v.encoded]
         IN  ValidateEach_SkippingRepeats(
                 Tail(skills), projects, experience, embedder, threshold,
                 Record(Head(skills),
                        validate_skill_against_projects(Head(skills), projects, experience,
                                                        embedder, threshold)))

\* The loop over the skills of _compute_skill_validation.
RECURSIVE ValidateEach(_, _, _, _, _, _)
ValidateEach(skills, projects, experience, embedder, threshold, acc) ==
    IF skills = <<>> THEN acc
    ELSE LET Record(skill, v) ==
                 IF v.is_validated
                 THEN [acc EXCEPT !.validated_skills =
                                      Append(@, [skill |-> skill,
                                                 projects |-> v.matching_projects,
                                                 similarity |-> v.max_similarity]),
                                  !.encoded = @ \/ v.encoded]
                 ELSE [acc EXCEPT !.unvalidated_skills = Append(@, skill),
                                  !.encoded = @ \/ v.encoded]
         IN  ValidateEach(
                 Tail(skills), projects, experience, embedder, threshold,
                 Record(Head(skills),
                        validate_skill_against_projects(Head(skills), projects, experience,
                                                        embedder, threshold)))

\* Returns [result, encoded]: the dictionary, and whether the embedder ran.
\* validation_percentage is in thousandths, validation_score in twentieths.
_compute_skill_validation(skills, projects, experience, embedder, threshold) ==
    LET Results(done) ==
            [result |-> [validated_skills |-> done.validated_skills,
                         unvalidated_skills |-> done.unvalidated_skills,
                         validation_percentage |->
                             (1000 * Len(done.validated_skills)) \div Len(skills),
                         skill_project_mapping |->
                             [ s \in Range(skills) |->
                                 IF s \in Range(done.unvalidated_skills) THEN <<>>
                                 ELSE (CHOOSE v \in Range(done.validated_skills) :
                                           v.skill = s).projects ],
                         validation_score |->
                             (15 * Pt * Len(done.validated_skills)) \div Len(skills)],
             encoded |-> done.encoded]
    IN  IF skills = <<>>
        THEN [result |-> [validated_skills |-> <<>>, unvalidated_skills |-> <<>>,
                          validation_percentage |-> 0, skill_project_mapping |-> << >>,
                          validation_score |-> 0],
              encoded |-> FALSE]
        ELSE Results(ValidateEach(skills, projects, experience, embedder, threshold,
                                  [validated_skills |-> <<>>, unvalidated_skills |-> <<>>,
                                   encoded |-> FALSE]))

\* tuple(sorted(xs)) as a dictionary key: equal exactly when the two lists
\* hold the same entries the same number of times.
SortedTuple(xs) ==
    [ x \in Range(xs) |-> Cardinality({ i \in DOMAIN xs : xs[i] = x }) ]

\* A session cache is a Python dict: a sequence of [key, val] in insertion order.
CacheHas(cache, key) == \E i \in DOMAIN cache : cache[i].key = key
CacheGet(cache, key) == cache[CHOOSE i \in DOMAIN cache : cache[i].key = key].val

\* cache[key] = val, then "if len(cache) > limit: del cache[next(iter(cache))]".
CacheStore(cache, key, val, limit) ==
    LET stored ==
            IF CacheHas(cache, key)
            THEN [ i \in DOMAIN cache |->
                     IF cache[i].key = key THEN [key |-> key, val |-> val] ELSE cache[i] ]
            ELSE Append(cache, [key |-> key, val |-> val])
    IN  IF Len(stored) > limit THEN Tail(stored) ELSE stored

SKILL_CACHE_LIMIT == 20
SCORE_CACHE_LIMIT == 20

SkillCacheKey(skills, projects, experience) ==
    <<"skill_validation", SortedTuple(skills), projects, experience>>

\* load_embedder(): the model installed on the machine, NoneRec when there is
\* none to load (SentenceTransformer raises, and so does load_embedder).
load_embedder(installed_model) ==
    [raised |-> installed_model = NoneRec, embedder |-> installed_model]

\* embedder is NoneRec for Python's None.  Returns [raised, result, cache,
\* loaded, encoded]: whether the call raised, what it returned, the cache it
\* leaves, whether it called load_embedder and whether the embedder ran.
validate_skills_with_projects(skills, projects, experience, embedder, cache, installed_model) ==
    LET loaded == embedder = NoneRec
        load == load_embedder(installed_model)
        model == IF loaded THEN load.embedder ELSE embedder
        cache_key == SkillCacheKey(skills, projects, experience)
        computed == _compute_skill_validation(skills, projects, experience, model, 60)
    IN  IF loaded /\ load.raised
        THEN [raised |-> TRUE, result |-> NoneRec, cache |-> cache,
              loaded |-> TRUE, encoded |-> FALSE]
        ELSE IF in_streamlit
        THEN IF CacheHas(cache, cache_key)
             THEN [raised |-> FALSE, result |-> CacheGet(cache, cache_key), cache |-> cache,
                   loaded |-> loaded, encoded |-> FALSE]
             ELSE [raised |-> FALSE, result |-> computed.result,
                   cache |-> CacheStore(cache, cache_key, computed.result, SKILL_CACHE_LIMIT),
                   loaded |-> loaded, encoded |-> computed.encoded]
        ELSE [raised |-> FALSE, result |-> computed.result, cache |-> cache,
              loaded |-> loaded, encoded |-> computed.encoded]

(***************************************************************************)
(* calculate_overall_score, utils/scorer.py: the scoring engine behind the *)
(* session score cache.                                                    *)
(***************************************************************************)
\* text_hash is a SHA-256 prefix of the text and hash() a hash of the tuple:
\* both are taken to be free of collisions.
ScoreCacheKey(text, skills, keywords, jd_kws) ==
    <<"score", text.id, SortedTuple(skills), SortedTuple(keywords), SortedTuple(jd_kws)>>

\* Returns [result, cache].
calculate_overall_score(text, sections, skills, keywords, action_verbs, skill_validation_results, grammar_results, location_results, jd_kws, cache) ==
    LET cache_key == ScoreCacheKey(text, skills, keywords, jd_kws)
        result == _compute_overall_score(text, sections, skills, keywords, action_verbs,
                                         skill_validation_results, grammar_results,
                                         location_results, jd_kws)
    IN  IF in_streamlit
        THEN IF CacheHas(cache, cache_key)
             THEN [result |-> CacheGet(cache, cache_key), cache |-> cache]
             ELSE [result |-> result,
                   cache |-> CacheStore(cache, cache_key, result, SCORE_CACHE_LIMIT)]
        ELSE [result |-> result, cache |-> cache]

(***************************************************************************)
(* The analysis-results cache, utils/cache_manager.py.                     *)
(***************************************************************************)
MAX_CACHE_SIZE == 10

\* time.time() at the store: the one instant of the model.
Now == 1000

get_cached_analysis_results(cache, cache_key) ==
    IF CacheHas(cache, cache_key) THEN CacheGet(cache, cache_key) ELSE NoneRec

\* store_analysis_results evicting only once the cache is over its size.
store_analysis_results_EvictingLate(cache, cache_key, analysis_results) ==
    LET kept == IF Len(cache) > MAX_CACHE_SIZE THEN Tail(cache) ELSE cache
        entry == [key |-> cache_key,
                  val |-> [results |-> analysis_results, timestamp |-> Now]]
    IN  IF CacheHas(kept, cache_key)
        THEN [ i \in DOMAIN kept |-> IF kept[i].key = cache_key THEN entry ELSE kept[i] ]
        ELSE Append(kept, entry)

\* "if len(cache) >= MAX_CACHE_SIZE: del cache[next(iter(cache))]", then
\* cache[cache_key] = {...}.  Returns the cache it leaves.
store_analysis_results(cache, cache_key, analysis_results) ==
    LET kept == IF Len(cache) >= MAX_CACHE_SIZE THEN Tail(cache) ELSE cache
        entry == [key |-> cache_key,
                  val |-> [results |-> analysis_results, timestamp |-> Now]]
    IN  IF CacheHas(kept, cache_key)
        THEN [ i \in DOMAIN kept |-> IF kept[i].key = cache_key THEN entry ELSE kept[i] ]
        ELSE Append(kept, entry)

(***************************************************************************)
(* Default values of a degraded stage, utils/error_handler.py.             *)
(***************************************************************************)
get_default_grammar_results ==
    [total_errors |-> 0, grammar_score |-> 100, penalty_applied |-> 0,
     error_free_percentage |-> 100, _component_status |-> "unavailable"]

get_default_location_results ==
    [location_found |-> FALSE, detected_locations |-> <<>>, privacy_risk |-> "unknown",
     recommendations |-> << [text |-> "Location detection was unavailable."] >>,
     penalty_applied |-> 0, _component_status |-> "unavailable"]

get_default_skill_validation_results ==
    [validated_skills |-> <<>>, unvalidated_skills |-> <<>>, validation_percentage |-> 0,
     skill_project_mapping |-> << >>, validation_score |-> 0,
     _component_status |-> "unavailable"]

get_default_jd_comparison_results ==
    [semantic_similarity |-> 0, matched_keywords |-> {}, missing_keywords |-> <<>>,
     skills_gap |-> {}, match_percentage |-> 0, _component_status |-> "unavailable"]

get_default_experience_results == [_component_status |-> "unavailable"]

\* An exception is [cls, message, ats]: its class, str(e), and whether the
\* class derives from ATSBaseError.
category_messages(category) ==
    CASE category = "file_upload" ->
           "There was a problem with your uploaded file. Please check the format and try again."
      [] category = "file_parsing" ->
           "Could not read your file. Please try a different format (PDF or DOCX)."
      [] category = "text_extraction" ->
           "No text could be extracted from your document. Please ensure it contains readable text."
      [] category = "nlp_processing" ->
           "There was an issue analyzing your resume. Please try again."
      [] category = "model_loading" ->
           "A required component failed to load. Please refresh the page and try again."
      [] category = "grammar_check" ->
           "Grammar checking is temporarily unavailable. Other features will continue to work."
      [] category = "skill_validation" ->
           "Could not validate skills. Other analysis features will continue."
      [] category = "location_detection" ->
           "Location detection encountered an issue. Other analysis features will continue."
      [] category = "scoring" ->
           "Could not calculate your score. Please try again."
      [] category = "jd_comparison" ->
           "Could not compare with job description. Please try again."
      [] category = "report_generation" ->
           "Could not generate the report. Please try an alternative download option."
      [] category = "authentication" ->
           "Authentication failed. Please log in again."
      [] OTHER ->
           "An unexpected error occurred. Please try again or contact support."

\* Called with a category by run_analysis; an ATSBaseError carries its own
\* user_message.
get_user_friendly_message(error, category) ==
    IF error.ats THEN error.user_message
    ELSE category_messages(category)

category_suggestions(category) ==
    CASE category = "file_upload" ->
           <<"Ensure your file is in PDF, DOC, or DOCX format",
             "Check that the file size is under 5MB",
             "Try re-saving the document and uploading again">>
      [] category = "file_parsing" ->
           <<"Try converting your document to PDF format",
             "Ensure the document is not password-protected",
             "Check that the document contains selectable text">>
      [] category = "model_loading" ->
           <<"Refresh the page and try again",
             "Check your internet connection",
             "Contact support if the problem persists">>
      [] OTHER ->
           <<"Try refreshing the page",
             "Upload your file again",
             "Contact support if the problem persists">>

get_error_suggestions(error, category) ==
    IF error.ats THEN error.suggestions
    ELSE category_suggestions(category)

(***************************************************************************)
(* run_analysis, pages/1_ATS_Scorer.py, one action per stage, and the      *)
(* page code around it.                                                    *)
(***************************************************************************)
MaxRuns == 2

GENERAL == "General ATS Score"
JD_MODE == "Job Description Comparison"

\* The calls the page can make: no job description in the general mode; a
\* file, a pasted text or nothing in the comparison mode.
Requests ==
    { [resume_file |-> f, jd_file |-> None, jd_text |-> None, analysis_mode |-> GENERAL] :
        f \in ResumeFiles }
    \cup
    { [resume_file |-> f, jd_file |-> j[1], jd_text |-> j[2], analysis_mode |-> JD_MODE] :
        f \in ResumeFiles, j \in { <<"jd.pdf", None>>, <<None, JdContent>>, <<None, None>> } }

InitialResults ==
    [success |-> FALSE, error |-> None, error_suggestions |-> None, warnings |-> <<>>,
     resume_text |-> NoneRec, resume_metadata |-> NoneRec, processed_data |-> NoneRec,
     skill_validation |-> NoneRec, grammar_results |-> NoneRec,
     location_results |-> NoneRec, scores |-> NoneRec, jd_comparison |-> NoneRec,
     experience_results |-> NoneRec, component_status |-> <<>>,
     \* set by the last stage only: empty stands for a key not there yet
     location_feedback |-> <<>>]

\* results['component_status'][name] = status
SetStatus(res, name, status) ==
    [res EXCEPT !.component_status =
        [ n \in (DOMAIN res.component_status) \cup {name} |->
            IF n = name THEN status ELSE res.component_status[n] ]]

AddWarning(res, text) == [res EXCEPT !.warnings = Append(@, text)]

FileValidationError(message) == [cls |-> "FileValidationError", message |-> message, ats |-> FALSE]
FileParsingError(message) == [cls |-> "FileParsingError", message |-> message, ats |-> FALSE]
LowLevelError(message) == [cls |-> "Exception", message |-> message, ats |-> FALSE]

\* Exceptions of the libraries underneath (libmagic, spaCy, the embedder).
LowLevelErrors ==
    { LowLevelError("MagicException: could not find any valid magic files!"),
      LowLevelError("OSError: [E050] Can't find model 'en_core_web_md'.") }

\* The error_message validate_file returns for a file it rejects.
validate_file_message(reason, e) ==
    IF reason = "empty"
    THEN "The uploaded file is empty. Please check the file and try again."
    ELSE "Unable to determine file type: " \o e.message

\* The three except clauses that end run_analysis.
Handled(res, e) ==
    IF e.cls = "FileValidationError"
    THEN [res EXCEPT !.error = e.message,
                     !.error_suggestions = get_error_suggestions(e, "file_upload")]
    ELSE IF e.cls = "FileParsingError"
    THEN [res EXCEPT !.error = e.message,
                     !.error_suggestions = get_error_suggestions(e, "file_parsing")]
    ELSE [res EXCEPT !.error = get_user_friendly_message(e, "unknown"),
                     !.error_suggestions = get_error_suggestions(e, "unknown")]

\* An except clause that also records the failed fatal stage as degraded.
Abort_MarkingDegraded(res, e) ==
    /\ results' = SetStatus(Handled(res, e), "scoring", "degraded")
    /\ pc' = "returned"

\* A stage raised: the except clause fills the error and run_analysis returns.
Abort(res, e) ==
    /\ results' = Handled(res, e)
    /\ pc' = "returned"

\* The page: "Analyze Resume" pressed with a resume uploaded.
ClickAnalyze ==
    /\ pc = "idle"
    /\ runs < MaxRuns
    /\ \E r \in Requests : req' = r
    /\ runs' = runs + 1
    /\ initialize_progress
    /\ results' = InitialResults
    /\ run_jd_keywords' = <<>>
    /\ pc' = "file_validation"
    /\ UNCHANGED <<session_vars, fn_vars, caller_vars>>

\* Stage 1: read the upload, validate it and extract its text.
FileValidation ==
    /\ pc = "file_validation"
    /\ update_progress("File Validation", NoPercent)
    /\ \E outcome \in {"ok", "read fails", "empty", "magic fails", "unparseable"} :
         CASE outcome = "read fails" ->
                Abort(results, FileValidationError(
                    "Could not read the uploaded file. Please try uploading again."))
           [] outcome = "empty" ->
                Abort(results, FileValidationError(validate_file_message("empty", NoneRec)))
           [] outcome = "magic fails" ->
                \E low \in LowLevelErrors :
                    Abort(results, FileValidationError(validate_file_message("magic", low)))
           [] outcome = "unparseable" ->
                Abort(results, FileParsingError(
                    "Failed to extract text from PDF using both pdfplumber and PyPDF2. "
                    \o "The PDF may be corrupted, password-protected, or contain only images. "
                    \o "Please try converting the PDF to a different format or ensure it "
                    \o "contains selectable text."))
           [] OTHER ->
                /\ results' = SetStatus([results EXCEPT
                                            !.resume_text = ParsedText(req.resume_file),
                                            !.resume_metadata = [filename |-> req.resume_file]],
                                        "file_parsing", "success")
                /\ pc' = "text_extraction"
    /\ UNCHANGED <<session_vars, req, run_jd_keywords, runs, fn_vars, caller_vars>>

\* Stage 2: the text is there already; load the two models.
TextExtraction ==
    /\ pc = "text_extraction"
    /\ update_progress("Text Extraction", NoPercent)
    /\ \E outcome \in {"ok", "nlp fails", "embedder fails"} :
         CASE outcome = "nlp fails" ->
                Abort(results, LowLevelError("OSError: spaCy model not found"))
           [] outcome = "embedder fails" ->
                Abort(SetStatus(results, "nlp_model", "success"),
                      LowLevelError("OSError: embedder not found"))
           [] OTHER ->
                /\ results' = SetStatus(SetStatus(results, "nlp_model", "success"),
                                        "embedder_model", "success")
                /\ pc' = "nlp_processing"
    /\ UNCHANGED <<session_vars, req, run_jd_keywords, runs, fn_vars, caller_vars>>

\* Stage 3: sections, skills, projects, keywords, action verbs.
NLPProcessing ==
    /\ pc = "nlp_processing"
    /\ update_progress("NLP Processing", NoPercent)
    /\ \E raises \in BOOLEAN :
         IF raises
         THEN Abort(results, LowLevelError("ValueError: process_resume_text"))
         ELSE /\ results' = SetStatus([results EXCEPT
                                !.processed_data = process_resume_text(results.resume_text)],
                                "nlp_processing", "success")
              /\ pc' = "skill_validation"
    /\ UNCHANGED <<session_vars, req, run_jd_keywords, runs, fn_vars, caller_vars>>

\* Stage 4: skill validation, degradable.  The call can raise whatever the
\* session cache holds (the failure is injected at the call).
SkillValidation ==
    /\ pc = "skill_validation"
    /\ update_progress("Skill Validation", NoPercent)
    /\ \E raises \in BOOLEAN :
         IF raises
         THEN /\ results' =
                    SetStatus([AddWarning(results,
                                  "Skill validation encountered an issue. Using default values.")
                                EXCEPT !.skill_validation = get_default_skill_validation_results],
                              "skill_validation", "degraded")
              /\ UNCHANGED skill_validation_cache
         ELSE LET pd == results.processed_data
                  call == validate_skills_with_projects(pd.skills, pd.projects,
                                pd.experience_text, InstalledEmbedder,
                                skill_validation_cache, InstalledEmbedder)
              IN  /\ results' = SetStatus([results EXCEPT !.skill_validation = call.result],
                                          "skill_validation", "success")
                  /\ skill_validation_cache' = call.cache
    /\ pc' = "experience_analysis"
    /\ UNCHANGED <<in_streamlit, analysis_cache, score_cache, req, run_jd_keywords, runs, fn_vars, caller_vars>>

\* Stage 5: experience analysis, degradable; then the grammar default.
ExperienceAnalysis ==
    /\ pc = "experience_analysis"
    /\ update_progress("Experience Analysis", NoPercent)
    /\ \E raises \in BOOLEAN :
         LET res ==
               IF raises
               THEN SetStatus([AddWarning(results,
                                  "Experience analysis encountered an issue. Using default values.")
                                EXCEPT !.experience_results = get_default_experience_results],
                              "experience_analysis", "degraded")
               ELSE SetStatus([results EXCEPT !.experience_results = [analyzed |-> TRUE]],
                              "experience_analysis", "success")
         IN  results' = [res EXCEPT !.grammar_results = get_default_grammar_results]
    /\ pc' = "location_detection"
    /\ UNCHANGED <<session_vars, req, run_jd_keywords, runs, fn_vars, caller_vars>>

\* Stage 6: location detection, degradable.
LocationDetection ==
    /\ pc = "location_detection"
    /\ update_progress("Location Detection", NoPercent)
    /\ \E raises \in BOOLEAN :
         IF raises
         THEN results' =
                SetStatus([AddWarning(results,
                              "Location detection encountered an issue. Using default values.")
                            EXCEPT !.location_results = get_default_location_results],
                          "location_detection", "degraded")
         ELSE results' =
                SetStatus([results EXCEPT !.location_results =
                              _perform_location_detection(LocationMentions(results.resume_text))],
                          "location_detection", "success")
    /\ pc' = "jd_processing"
    /\ UNCHANGED <<session_vars, req, run_jd_keywords, runs, fn_vars, caller_vars>>

\* "Process JD if provided": no progress update of its own.
JDProcessing ==
    /\ pc = "jd_processing"
    /\ IF req.analysis_mode # JD_MODE
       THEN UNCHANGED <<results, run_jd_keywords>>
       ELSE \E file_raises \in BOOLEAN, compare_raises \in {"no", "keywords", "comparison"} :
              LET parsed_ok == req.jd_file # None /\ ~ file_raises
                  res1 == IF req.jd_file # None /\ file_raises
                          THEN AddWarning(results,
                                 "Could not parse job description file. Skipping JD comparison.")
                          ELSE results
                  jd_text_content ==
                      IF req.jd_file # None
                      THEN (IF parsed_ok THEN JdContent ELSE None)
                      ELSE req.jd_text
                  kws == extract_jd_keywords(jd_text_content)
                  pd == results.processed_data
              IN  IF jd_text_content = None
                  THEN /\ results' = res1
                       /\ UNCHANGED run_jd_keywords
                  ELSE IF compare_raises = "keywords"
                  THEN /\ results' =
                            SetStatus([AddWarning(res1,
                                          "Job description comparison encountered an issue.")
                                        EXCEPT !.jd_comparison = get_default_jd_comparison_results],
                                      "jd_comparison", "degraded")
                       /\ UNCHANGED run_jd_keywords
                  ELSE IF compare_raises = "comparison"
                  THEN /\ results' =
                            SetStatus([AddWarning(res1,
                                          "Job description comparison encountered an issue.")
                                        EXCEPT !.jd_comparison = get_default_jd_comparison_results],
                                      "jd_comparison", "degraded")
                       /\ run_jd_keywords' = kws
                  ELSE /\ results' =
                            SetStatus([res1 EXCEPT !.jd_comparison =
                                          _perform_jd_comparison(pd.keywords, kws,
                                              JdFacts.semantic_similarity, JdFacts.skills_gap)],
                                      "jd_comparison", "success")
                       /\ run_jd_keywords' = kws
    /\ pc' = "score_calculation"
    /\ UNCHANGED <<session_vars, progress_vars, req, runs, fn_vars, caller_vars>>

\* Stage 7: the overall score, through the session score cache.
ScoreCalculation ==
    /\ pc = "score_calculation"
    /\ update_progress("Score Calculation", NoPercent)
    /\ \E raises \in BOOLEAN :
         IF raises
         THEN /\ Abort(results, LowLevelError("KeyError: calculate_overall_score"))
              /\ UNCHANGED score_cache
         ELSE LET pd == results.processed_data
                  call == calculate_overall_score(results.resume_text, pd.sections, pd.skills,
                              pd.keywords, pd.action_verbs, results.skill_validation,
                              results.grammar_results, results.location_results,
                              run_jd_keywords, score_cache)
              IN  /\ results' = SetStatus([results EXCEPT !.scores = call.result],
                                          "scoring", "success")
                  /\ score_cache' = call.cache
                  /\ pc' = "generating_results"
    /\ UNCHANGED <<in_streamlit, analysis_cache, skill_validation_cache, req, run_jd_keywords, runs, fn_vars, caller_vars>>

\* Stage 8: the feedback lists (each with its own fallback), then success.
GeneratingResults ==
    /\ pc = "generating_results"
    /\ update_progress("Generating Results", NoPercent)
    /\ results' = [results EXCEPT
                       !.location_feedback = generate_location_feedback(results.location_results),
                       !.success = TRUE]
    /\ pc' = "returned"
    /\ UNCHANGED <<session_vars, req, run_jd_keywords, runs, fn_vars, caller_vars>>

\* The page after run_analysis returned: progress is marked complete.
PageFinish ==
    /\ pc = "returned"
    /\ complete_progress
    /\ pc' = "idle"
    /\ UNCHANGED <<session_vars, req, results, run_jd_keywords, runs, fn_vars, caller_vars>>

NoCall == [none |-> TRUE]

Init ==
    /\ in_streamlit \in BOOLEAN
    /\ score_cache = <<>>
    /\ skill_validation_cache = <<>>
    /\ analysis_cache = <<>>
    /\ progress_set = FALSE
    /\ progress_percent = 0
    /\ progress_stage = None
    /\ progress_stage_index = -1
    /\ pc = "idle"
    /\ req = NoCall
    /\ results = InitialResults
    /\ run_jd_keywords = <<>>
    /\ runs = 0
    /\ fn = None
    /\ fn_args = NoCall
    /\ fn_result = NoCall
    /\ returned_refs = {}

Next ==
    \/ ClickAnalyze
    \/ FileValidation
    \/ TextExtraction
    \/ NLPProcessing
    \/ SkillValidation
    \/ ExperienceAnalysis
    \/ LocationDetection
    \/ JDProcessing
    \/ ScoreCalculation
    \/ GeneratingResults
    \/ PageFinish

Spec == Init /\ [][Next]_vars

(***************************************************************************)
(* Properties of run_analysis, checked under Spec.                         *)
(***************************************************************************)
Returned == pc = "returned"
\* run_analysis returned through one of its except clauses.
Failed == Returned /\ results.error # None

StatusOf(name) ==
    IF name \in DOMAIN results.component_status THEN results.component_status[name] ELSE None

DegradedStages == { n \in DOMAIN results.component_status : results.component_status[n] = "degraded" }

\* The arguments run_analysis hands to calculate_overall_score, scored afresh.
FreshScores ==
    LET pd == results.processed_data
    IN  _compute_overall_score(results.resume_text, pd.sections, pd.skills, pd.keywords,
                               pd.action_verbs, results.skill_validation,
                               results.grammar_results, results.location_results,
                               run_jd_keywords)

\* C1: when a fatal stage raised, the record run_analysis returns has
\* success == false and none of resume_text, processed_data, skill_validation,
\* location_results, jd_comparison, scores populated.
C1_NoPartialResult ==
    Failed =>
        /\ results.success = FALSE
        /\ results.resume_text = NoneRec
        /\ results.processed_data = NoneRec
        /\ results.skill_validation = NoneRec
        /\ results.location_results = NoneRec
        /\ results.jd_comparison = NoneRec
        /\ results.scores = NoneRec

\* C2: when the skill validator raised in a run that no fatal stage ended,
\* the result has success == true, component_status['skill_validation'] ==
\* 'degraded' and scores['skill_validation_score'] == 0.
C2_SkillDegradedScoresZero ==
    (Returned /\ ~ Failed /\ results.skill_validation = get_default_skill_validation_results) =>
        /\ results.success = TRUE
        /\ StatusOf("skill_validation") = "degraded"
        /\ results.scores.skill_validation_score = 0

\* C3: with the session score cache in use, calculate_overall_score returns
\* what _compute_overall_score returns for the same arguments, whatever
\* calls came before.
C3_CachedScoreIsComputedScore ==
    (in_streamlit /\ pc = "generating_results") => results.scores = FreshScores

\* C5 as stated: only skill validation, location detection and JD
\* comparison are ever marked degraded.
C5_Original_OnlyThreeDegrade ==
    DegradedStages \subseteq {"skill_validation", "location_detection", "jd_comparison"}

\* C5 amended: a stage marked degraded is one of skill validation,
\* experience analysis, location detection and JD comparison; file parsing,
\* the two model loads, NLP processing and scoring are never marked degraded.
C5_DegradedOnlyDegradable ==
    DegradedStages \subseteq
        {"skill_validation", "experience_analysis", "location_detection", "jd_comparison"}

\* C5 witness: a successful run in which experience analysis degraded.
C5_Witness_ExperienceDegraded ==
    /\ Returned
    /\ results.success
    /\ StatusOf("experience_analysis") = "degraded"
    /\ StatusOf("scoring") = "success"

\* C6: in a successful result the warnings list has exactly one entry per
\* degraded stage.
C6_OneWarningPerDegradedStage ==
    (Returned /\ results.success) => Len(results.warnings) = Cardinality(DegradedStages)

(***************************************************************************)
(* The progress indicator driven directly: any interleaving of             *)
(* initialize_progress, update_progress and complete_progress, with stage  *)
(* names that exist and one that does not, and percentages inside and      *)
(* outside 0..100.                                                         *)
(***************************************************************************)
PercentSlack == 3
PercentInputs ==
    { p * 5 : p \in 0 .. 20 } \cup (0 - PercentSlack .. 0) \cup (100 .. 100 + PercentSlack)
StageInputs == StageNames \cup {"Grammar Check"}

InitializeProgress ==
    /\ initialize_progress
    /\ fn' = "initialize_progress"
    /\ fn_args' = NoCall
    /\ UNCHANGED <<fn_result, session_vars, run_vars, caller_vars>>

UpdateProgress ==
    \E stage_name \in StageInputs, percent \in {NoPercent} \cup { <<p>> : p \in PercentInputs } :
        /\ update_progress(stage_name, percent)
        /\ fn' = "update_progress"
        /\ fn_args' = [stage_name |-> stage_name, percent |-> percent]
        /\ UNCHANGED <<fn_result, session_vars, run_vars, caller_vars>>

CompleteProgress ==
    /\ complete_progress
    /\ fn' = "complete_progress"
    /\ fn_args' = NoCall
    /\ UNCHANGED <<fn_result, session_vars, run_vars, caller_vars>>

NextProgress == InitializeProgress \/ UpdateProgress \/ CompleteProgress

SpecProgress == Init /\ [][NextProgress]_vars

\* C4: a step that is not initialize_progress never lowers the progress
\* percentage, whatever update_progress and complete_progress calls are made.
C4_ProgressNeverDecreases ==
    [][fn' # "initialize_progress" => progress_percent' >= progress_percent]_vars

\* C4 witness: update_progress was asked for an earlier stage at a lower
\* percentage and the percentage stayed where it was.
C4_Witness_BackwardUpdateKeepsPercent ==
    /\ fn = "update_progress"
    /\ fn_args.stage_name = "File Validation"
    /\ fn_args.percent = <<5>>
    /\ progress_stage = "File Validation"
    /\ progress_percent = 60

(***************************************************************************)
(* The scoring engine called directly, on arguments that include values    *)
(* outside the documented ranges.                                          *)
(***************************************************************************)
\* How far, in points, an input may lie beyond the range its producer keeps.
MaxExcess == 5

Vocabulary ==
    <<"python", "aws", "docker", "sql", "api", "linux", "git", "rest", "java", "agile",
      "scrum", "react", "node", "spark", "kafka", "redis", "azure", "gcp", "bash", "go">>
Words(n) == SubSeq(Vocabulary, 1, n)

TextInputs ==
    { [id |-> "T", bullets |-> 0, achievements |-> 0, glyphs |-> 25],
      [id |-> "T", bullets |-> 5, achievements |-> 3, glyphs |-> 0],
      [id |-> "T", bullets |-> 12, achievements |-> 7, glyphs |-> 12],
      [id |-> "T", bullets |-> 15, achievements |-> 10, glyphs |-> 0] }
SectionInputs ==
    { [experience |-> 0, education |-> 0, skills |-> 0, summary |-> 0, projects |-> 0],
      [experience |-> 10, education |-> 15, skills |-> 5, summary |-> 0, projects |-> 0],
      [experience |-> 150, education |-> 30, skills |-> 30, summary |-> 0, projects |-> 40],
      [experience |-> 150, education |-> 30, skills |-> 30, summary |-> 40, projects |-> 40] }
ValidationInputs ==
    { [validation_score |-> 0 - MaxExcess * Pt, validation_percentage |-> 0],
      [validation_score |-> 0, validation_percentage |-> 0],
      [validation_score |-> Quarter(45), validation_percentage |-> 750],
      [validation_score |-> Quarter(47), validation_percentage |-> 799],
      [validation_score |-> 12 * Pt, validation_percentage |-> 800],
      [validation_score |-> Quarter(51), validation_percentage |-> 850],
      [validation_score |-> Quarter(53), validation_percentage |-> 899],
      [validation_score |-> Quarter(54), validation_percentage |-> 900],
      [validation_score |-> 15 * Pt, validation_percentage |-> 1000],
      [validation_score |-> (15 + MaxExcess) * Pt, validation_percentage |-> 1000] }
GrammarInputs ==
    { [penalty_applied |-> 0 - MaxExcess * Pt, total_errors |-> 0],
      [penalty_applied |-> 0, total_errors |-> 0],
      [penalty_applied |-> 1 * Pt, total_errors |-> 2],
      [penalty_applied |-> 5 * Pt, total_errors |-> 9],
      [penalty_applied |-> (20 + MaxExcess) * Pt, total_errors |-> 40] }
LocationInputs ==
    { [penalty_applied |-> p] :
        p \in {0 - MaxExcess * Pt, 0, 3 * Pt, 5 * Pt, (15 + MaxExcess) * Pt} }

ScoreInputs ==
    [text : TextInputs, sections : SectionInputs,
     skills : {Words(0), Words(4), Words(15)},
     keywords : {Words(0), Words(10), Words(20)},
     action_verbs : {Words(0), Words(7), Words(15)},
     skill_validation_results : ValidationInputs,
     grammar_results : GrammarInputs,
     location_results : LocationInputs,
     jd_keywords : {<<>>, <<"Python", "AWS", "kubernetes">>}]

InitScore ==
    /\ in_streamlit = FALSE
    /\ score_cache = <<>>
    /\ skill_validation_cache = <<>>
    /\ analysis_cache = <<>>
    /\ progress_set = FALSE
    /\ progress_percent = 0
    /\ progress_stage = None
    /\ progress_stage_index = -1
    /\ pc = "idle"
    /\ req = NoCall
    /\ results = InitialResults
    /\ run_jd_keywords = <<>>
    /\ runs = 0
    /\ fn = None
    /\ fn_args \in ScoreInputs
    /\ fn_result = NoCall
    /\ returned_refs = {}

CallComputeOverallScore ==
    /\ fn = None
    /\ fn' = "_compute_overall_score"
    /\ fn_result' =
         _compute_overall_score(fn_args.text, fn_args.sections, fn_args.skills,
                                fn_args.keywords, fn_args.action_verbs,
                                fn_args.skill_validation_results, fn_args.grammar_results,
                                fn_args.location_results, fn_args.jd_keywords)
    /\ UNCHANGED <<fn_args, session_vars, progress_vars, run_vars, caller_vars>>

NextScore == CallComputeOverallScore

SpecScore == InitScore /\ [][NextScore]_vars

Scored == fn = "_compute_overall_score"

InRange(x, lo, hi) == lo * Pt <= x /\ x <= hi * Pt

\* C7: every score the engine returns is inside its documented range:
\* overall 0..100, formatting 0..20, keywords 0..25, content 0..25, skill
\* validation 0..15, ATS compatibility 0..15.
C7_ScoresWithinRanges ==
    Scored =>
        /\ InRange(fn_result.overall_score, 0, 100)
        /\ InRange(fn_result.formatting_score, 0, 20)
        /\ InRange(fn_result.keywords_score, 0, 25)
        /\ InRange(fn_result.content_score, 0, 25)
        /\ InRange(fn_result.skill_validation_score, 0, 15)
        /\ InRange(fn_result.ats_compatibility_score, 0, 15)

\* C7 witness: a validation score above 15 and a location penalty above 15
\* went in, and the two components came out at their bounds.
C7_Witness_OutOfRangeInputsClamped ==
    /\ Scored
    /\ fn_args.skill_validation_results.validation_score > 15 * Pt
    /\ fn_args.location_results.penalty_applied > 15 * Pt
    /\ fn_result.skill_validation_score = 15 * Pt
    /\ fn_result.ats_compatibility_score = 0

BreakdownSum ==
    fn_result.formatting_score + fn_result.keywords_score + fn_result.content_score
        + fn_result.skill_validation_score + fn_result.ats_compatibility_score

\* The five component scores as the engine computes them, before rounding.
UnroundedSum ==
      calculate_formatting_score(fn_args.sections, fn_args.text)
    + calculate_keywords_score(fn_args.keywords, fn_args.skills, fn_args.jd_keywords)
    + calculate_content_score(fn_args.text, fn_args.action_verbs, fn_args.grammar_results)
    + calculate_skill_validation_score(fn_args.skill_validation_results)
    + calculate_ats_compatibility_score(fn_args.text, fn_args.location_results, fn_args.sections)

Abs(x) == IF x < 0 THEN 0 - x ELSE x

\* C8 as stated: overall_score is exactly the clamped sum of the component
\* scores in the breakdown plus the bonuses in the breakdown.
C8_Original_OverallIsBreakdownSum ==
    Scored =>
        fn_result.overall_score = Clamp(BreakdownSum + SumMap(fn_result.bonuses), 0, 100 * Pt)

\* C8 amended: overall_score is the one-decimal rounding of the clamped sum
\* of the five unrounded component scores and the bonuses; the values in the
\* penalties ledger are not subtracted; and the clamped sum of the rounded
\* breakdown components and the bonuses is within 0.3 of overall_score.
C8_OverallIsRoundedUnroundedSum ==
    Scored =>
        /\ fn_result.overall_score =
               Round1(Clamp(UnroundedSum + SumMap(fn_result.bonuses), 0, 100 * Pt))
        /\ Abs(fn_result.overall_score
                 - Clamp(BreakdownSum + SumMap(fn_result.bonuses), 0, 100 * Pt)) <= 6

\* C8 witness: the ledger holds a location penalty and a bonus was added, the
\* skill validation score was rounded from 11.25 to 11.2, and overall_score
\* is not the sum of the breakdown.
C8_Witness_RoundedSeparately ==
    /\ Scored
    /\ "location_privacy" \in DOMAIN fn_result.penalties
    /\ DOMAIN fn_result.bonuses # {}
    /\ fn_result.skill_validation_score = Quarter(45) - 1
    /\ fn_result.overall_score # BreakdownSum + SumMap(fn_result.bonuses)
    /\ fn_result.overall_score < 100 * Pt

(***************************************************************************)
(* The location detector called directly on the mentions its three         *)
(* detectors can produce.                                                  *)
(***************************************************************************)
MaxMentions == 2

\* spaCy labels a place GPE or LOC; the regex detectors yield address and zip.
MentionInputs ==
    [type : {"gpe", "loc", "address", "zip"},
     start : {10, 199, 200, 400},
     near : {"experience", "education", "other"}]

RECURSIVE SeqsUpTo(_, _)
SeqsUpTo(S, n) ==
    IF n = 0 THEN { <<>> }
    ELSE LET shorter == SeqsUpTo(S, n - 1)
         IN  shorter \cup { Append(s, x) : s \in shorter, x \in S }

InitLocation ==
    /\ in_streamlit = FALSE
    /\ score_cache = <<>>
    /\ skill_validation_cache = <<>>
    /\ analysis_cache = <<>>
    /\ progress_set = FALSE
    /\ progress_percent = 0
    /\ progress_stage = None
    /\ progress_stage_index = -1
    /\ pc = "idle"
    /\ req = NoCall
    /\ results = InitialResults
    /\ run_jd_keywords = <<>>
    /\ runs = 0
    /\ fn = None
    /\ fn_args \in SeqsUpTo(MentionInputs, MaxMentions)
    /\ fn_result = NoCall
    /\ returned_refs = {}

CallPerformLocationDetection ==
    /\ fn = None
    /\ fn' = "_perform_location_detection"
    /\ fn_result' = _perform_location_detection(fn_args)
    /\ UNCHANGED <<fn_args, session_vars, progress_vars, run_vars, caller_vars>>

NextLocation == CallPerformLocationDetection

SpecLocation == InitLocation /\ [][NextLocation]_vars

\* C9: a GPE or LOC mention that starts within the first 200 characters is
\* never among the detected (unacceptable) locations.
C9_HeaderPlaceNeverUnacceptable ==
    fn = "_perform_location_detection" =>
        \A i \in DOMAIN fn_args :
            (fn_args[i].type \in {"gpe", "loc"} /\ fn_args[i].start < 200) =>
                ~ \E j \in DOMAIN fn_result.detected_locations :
                      /\ fn_result.detected_locations[j].type = fn_args[i].type
                      /\ fn_result.detected_locations[j].start = fn_args[i].start

(***************************************************************************)
(* The match percentage called directly.                                   *)
(***************************************************************************)
MaxJdKeywords == 3

JdVocabulary == {"Python", "aws", "kubernetes"}
SimilarityInputs == {0 - 20, 0, 25, 50, 75, 100, 120}

InitMatch ==
    /\ in_streamlit = FALSE
    /\ score_cache = <<>>
    /\ skill_validation_cache = <<>>
    /\ analysis_cache = <<>>
    /\ progress_set = FALSE
    /\ progress_percent = 0
    /\ progress_stage = None
    /\ progress_stage_index = -1
    /\ pc = "idle"
    /\ req = NoCall
    /\ results = InitialResults
    /\ run_jd_keywords = <<>>
    /\ runs = 0
    /\ fn = None
    /\ fn_args \in [resume_keywords : SeqsUpTo({"python", "AWS", "sql"}, 2),
                    jd_keywords : SeqsUpTo(JdVocabulary, MaxJdKeywords),
                    semantic_similarity : SimilarityInputs]
    /\ fn_result = NoCall
    /\ returned_refs = {}

CallCalculateMatchPercentage ==
    /\ fn = None
    /\ fn' = "calculate_match_percentage"
    /\ fn_result' = calculate_match_percentage(fn_args.resume_keywords, fn_args.jd_keywords,
                                               fn_args.semantic_similarity)
    /\ UNCHANGED <<fn_args, session_vars, progress_vars, run_vars, caller_vars>>

NextMatch == CallCalculateMatchPercentage

SpecMatch == InitMatch /\ [][NextMatch]_vars

\* C10: the match percentage is clamp(100 * (0.6 * r + 0.4 * s), 0, 100),
\* with r the matched keywords over the JD keywords, and r = 0 for a JD with
\* no keywords, where the result is 40 * s.
C10_MatchPercentageFormula ==
    fn = "calculate_match_percentage" =>
        LET matched == LowerSet(fn_args.resume_keywords) \cap LowerSet(fn_args.jd_keywords)
            n == Len(fn_args.jd_keywords)
            r_part == IF n = 0 THEN 0 ELSE (60000 * Cardinality(matched)) \div n
        IN  fn_result = Clamp(r_part + 400 * fn_args.semantic_similarity, 0, 100000)

(***************************************************************************)
(* Degradable stages of run_analysis, checked under Spec.                  *)
(***************************************************************************)
\* C11: when location detection raised in a run that no fatal stage ended,
\* the result is successful, location_results is the neutral default
\* (privacy_risk 'unknown', penalty 0, no mentions), the stage is marked
\* degraded, and the run's scores carry no location penalty.
C11_LocationDegradedNoPenalty ==
    (Returned /\ ~ Failed /\ StatusOf("location_detection") = "degraded") =>
        /\ results.success = TRUE
        /\ results.location_results.privacy_risk = "unknown"
        /\ results.location_results.penalty_applied = 0
        /\ results.location_results.detected_locations = <<>>
        /\ "location_privacy" \notin DOMAIN results.scores.penalties
        /\ results.scores.ats_compatibility_score =
               Round1(calculate_ats_compatibility_score(results.resume_text,
                          get_default_location_results, results.processed_data.sections))

\* A JD step raised in the run: the JD file could not be read or parsed, or
\* keyword extraction or the comparison raised.
JdStepRaised ==
    \/ \E i \in DOMAIN results.warnings :
          results.warnings[i] = "Could not parse job description file. Skipping JD comparison."
    \/ StatusOf("jd_comparison") = "degraded"

\* C12: when JD comparison was requested and a JD step raised, in a run that
\* no fatal stage ended, the result is successful and jd_comparison is the
\* all-zero default.
C12_JdFailureGivesDefault ==
    (Returned /\ ~ Failed /\ req.analysis_mode = JD_MODE /\ JdStepRaised) =>
        /\ results.success = TRUE
        /\ results.jd_comparison = get_default_jd_comparison_results

ErrorCategories ==
    {"file_upload", "file_parsing", "text_extraction", "nlp_processing", "model_loading",
     "grammar_check", "skill_validation", "location_detection", "scoring", "jd_comparison",
     "report_generation", "authentication", "unknown"}

\* C13: the error text of a failed run is the user message of one of the
\* error categories, with that category's suggestions; it is never the
\* message of the exception that was raised underneath.
C13_ErrorIsCategoryMessage ==
    Failed =>
        \E c \in ErrorCategories :
            /\ results.error = category_messages(c)
            /\ results.error_suggestions = category_suggestions(c)

(***************************************************************************)
(* Properties of the progress indicator, checked under SpecProgress.       *)
(***************************************************************************)
StageInfo(stage_name) == PROCESSING_STAGES[StageIndex(stage_name) + 1]

\* The percentage a call asks for, brought into the stage's range.
RequestedWithinStage(args) ==
    LET stage_info == StageInfo(args.stage_name)
    IN  IF args.percent = NoPercent THEN stage_info.start_percent
        ELSE IF args.percent[1] < stage_info.start_percent THEN stage_info.start_percent
        ELSE IF args.percent[1] > stage_info.end_percent THEN stage_info.end_percent
        ELSE args.percent[1]

UpdatedDefinedStage == fn = "update_progress" /\ fn_args.stage_name \in StageNames

\* C14 as stated: after update_progress(S, p) on a defined stage S the
\* stored percentage lies within S's range.
C14_Original_PercentWithinStageRange ==
    UpdatedDefinedStage =>
        /\ StageInfo(fn_args.stage_name).start_percent <= progress_percent
        /\ progress_percent <= StageInfo(fn_args.stage_name).end_percent

\* C14 amended: update_progress(S, p) on a defined stage S stores the larger
\* of the previous percentage and p clamped to S's range (S's start when p
\* is omitted); the stored percentage lies within S's range whenever the
\* previous percentage did not exceed S's end.
C14_ClampedThenNeverLowered ==
    [][UpdatedDefinedStage' =>
         /\ progress_percent' = Max(progress_percent, RequestedWithinStage(fn_args'))
         /\ progress_percent <= StageInfo(fn_args'.stage_name).end_percent =>
              /\ StageInfo(fn_args'.stage_name).start_percent <= progress_percent'
              /\ progress_percent' <= StageInfo(fn_args'.stage_name).end_percent]_vars

\* C14 witness: a percentage above the stage's range was requested and the
\* stage's end was stored.
C14_Witness_RequestAboveRangeClamped ==
    /\ fn = "update_progress"
    /\ fn_args.stage_name = "Text Extraction"
    /\ fn_args.percent = <<100>>
    /\ progress_percent = 25

\* C15: after initialize_progress() and then update_progress("Grammar Check", 65),
\* get_current_progress() returns percent 65, the stage named "Grammar Check"
\* and a stage_index of at least 0.
C15_GrammarCheckStageReported ==
    [][(/\ fn = "initialize_progress"
        /\ fn' = "update_progress"
        /\ fn_args' = [stage_name |-> "Grammar Check", percent |-> <<65>>]) =>
          /\ get_current_progress'.percent = 65
          /\ get_current_progress'.stage = "Grammar Check"
          /\ get_current_progress'.stage_index >= 0]_vars

(***************************************************************************)
(* The two session result caches seen by a caller that keeps the results   *)
(* it is handed.  Both functions store the result dictionary and return    *)
(* that same dictionary, on a miss and on a hit: a caller's reference to a *)
(* result is a reference to the cache entry for as long as the entry stays *)
(* in the cache.  run_analysis does not write to the results it gets; the  *)
(* caller here may.                                                        *)
(***************************************************************************)
ArgsOfResume(file, jd_kws) ==
    LET text == ParsedText(file)
        pd == process_resume_text(text)
    IN  [text |-> text, sections |-> pd.sections, skills |-> pd.skills,
         keywords |-> pd.keywords, action_verbs |-> pd.action_verbs,
         projects |-> pd.projects, experience |-> pd.experience_text,
         embedder |-> InstalledEmbedder,
         skill_validation_results |->
             _compute_skill_validation(pd.skills, pd.projects, pd.experience_text,
                                       InstalledEmbedder, 60).result,
         grammar_results |-> get_default_grammar_results,
         location_results |-> _perform_location_detection(LocationMentions(text)),
         jd_keywords |-> jd_kws]

CacheCallInputs ==
    { ArgsOfResume(file, jd_kws) :
        file \in ResumeFiles, jd_kws \in {<<>>, extract_jd_keywords(JdContent)} }

ComputedScore(a) ==
    _compute_overall_score(a.text, a.sections, a.skills, a.keywords, a.action_verbs,
                           a.skill_validation_results, a.grammar_results,
                           a.location_results, a.jd_keywords)

\* The references that still point into a cache.
LiveRefs(refs, scores, validations) ==
    { r \in refs : IF r.cache = "score_cache" THEN CacheHas(scores, r.key)
                   ELSE CacheHas(validations, r.key) }

InitCache ==
    /\ in_streamlit = TRUE
    /\ score_cache = <<>>
    /\ skill_validation_cache = <<>>
    /\ analysis_cache = <<>>
    /\ progress_set = FALSE
    /\ progress_percent = 0
    /\ progress_stage = None
    /\ progress_stage_index = -1
    /\ pc = "idle"
    /\ req = NoCall
    /\ results = InitialResults
    /\ run_jd_keywords = <<>>
    /\ runs = 0
    /\ fn = None
    /\ fn_args = NoCall
    /\ fn_result = NoCall
    /\ returned_refs = {}

CallCalculateOverallScore ==
    \E a \in CacheCallInputs :
        LET call == calculate_overall_score(a.text, a.sections, a.skills, a.keywords,
                        a.action_verbs, a.skill_validation_results, a.grammar_results,
                        a.location_results, a.jd_keywords, score_cache)
            ref == [cache |-> "score_cache",
                    key |-> ScoreCacheKey(a.text, a.skills, a.keywords, a.jd_keywords)]
        IN  /\ score_cache' = call.cache
            /\ fn' = "calculate_overall_score"
            /\ fn_args' = a
            /\ fn_result' = call.result
            /\ returned_refs' =
                   LiveRefs(returned_refs \cup {ref}, call.cache, skill_validation_cache)
            /\ UNCHANGED <<in_streamlit, analysis_cache, skill_validation_cache, progress_vars, run_vars>>

CallValidateSkillsWithProjects ==
    \E a \in CacheCallInputs :
        LET call == validate_skills_with_projects(a.skills, a.projects, a.experience,
                                                  a.embedder, skill_validation_cache,
                                                  InstalledEmbedder)
            ref == [cache |-> "skill_validation_cache",
                    key |-> SkillCacheKey(a.skills, a.projects, a.experience)]
        IN  /\ skill_validation_cache' = call.cache
            /\ fn' = "validate_skills_with_projects"
            /\ fn_args' = a
            /\ fn_result' = call.result
            /\ returned_refs' = LiveRefs(returned_refs \cup {ref}, score_cache, call.cache)
            /\ UNCHANGED <<in_streamlit, analysis_cache, score_cache, progress_vars, run_vars>>

\* dict[field] = 0 on the entry stored under key.
WriteThrough(cache, key, field) ==
    [ i \in DOMAIN cache |->
        IF cache[i].key = key
        THEN [cache[i] EXCEPT !.val = [ f \in DOMAIN @ |-> IF f = field THEN 0 ELSE @[f] ]]
        ELSE cache[i] ]

\* The caller writes to a result it was handed earlier.
CallerWritesToResult ==
    \E r \in returned_refs :
        /\ IF r.cache = "score_cache"
           THEN /\ score_cache' = WriteThrough(score_cache, r.key, "overall_score")
                /\ UNCHANGED skill_validation_cache
           ELSE /\ skill_validation_cache' =
                      WriteThrough(skill_validation_cache, r.key, "validation_score")
                /\ UNCHANGED score_cache
        /\ fn' = "caller"
        /\ fn_args' = r
        /\ fn_result' = NoCall
        /\ UNCHANGED <<in_streamlit, analysis_cache, returned_refs, progress_vars, run_vars>>

NextCache ==
    \/ CallCalculateOverallScore
    \/ CallValidateSkillsWithProjects
    \/ CallerWritesToResult

SpecCache == InitCache /\ [][NextCache]_vars

\* C16: a call of a cached function returns the value that was computed
\* for its key, whatever the caller did to results it was handed before.
C16_CacheHitReturnsComputedValue ==
    /\ fn = "calculate_overall_score" => fn_result = ComputedScore(fn_args)
    /\ fn = "validate_skills_with_projects" =>
           fn_result = _compute_skill_validation(fn_args.skills, fn_args.projects,
                                                 fn_args.experience, fn_args.embedder, 60).result

(***************************************************************************)
(* extract_sections, utils/text_processor.py.  A line is [header, blank]:  *)
(* header is the section whose pattern the stripped line matches when it   *)
(* is shorter than 100 characters (None otherwise), blank says that the    *)
(* stripped line is empty.  A section's content is the sequence of the     *)
(* positions of its lines in the text.                                     *)
(***************************************************************************)
RECURSIVE StripLines(_, _)
\* '\n'.join(section_content).strip(): blank lines at the end go away; a
\* content never starts with a blank line.
StripLines(lines, section_content) ==
    IF section_content = <<>> THEN <<>>
    ELSE IF lines[section_content[Len(section_content)]].blank
    THEN StripLines(lines, SubSeq(section_content, 1, Len(section_content) - 1))
    ELSE section_content

RECURSIVE ScanLines(_, _, _, _, _)
ScanLines(lines, i, sections, current_section, section_content) ==
    LET saved ==
            IF current_section # None /\ section_content # <<>>
            THEN [sections EXCEPT ![current_section] = StripLines(lines, section_content)]
            ELSE sections
    IN  IF i > Len(lines) THEN saved
        ELSE IF lines[i].blank
        THEN ScanLines(lines, i + 1, sections, current_section,
                       IF current_section # None /\ section_content # <<>>
                       THEN Append(section_content, i) ELSE section_content)
        ELSE IF lines[i].header # None
        THEN ScanLines(lines, i + 1, saved, lines[i].header, <<>>)
        ELSE ScanLines(lines, i + 1, sections, current_section,
                       IF current_section # None
                       THEN Append(section_content, i) ELSE section_content)

extract_sections(lines) ==
    ScanLines(lines, 1, [ n \in SectionNames |-> <<>> ], None, <<>>)

MaxLines == 4

LineInputs ==
    { [header |-> "experience", blank |-> FALSE],
      [header |-> "skills", blank |-> FALSE],
      [header |-> None, blank |-> FALSE],
      [header |-> None, blank |-> TRUE] }

InitSections ==
    /\ in_streamlit = FALSE
    /\ score_cache = <<>>
    /\ skill_validation_cache = <<>>
    /\ analysis_cache = <<>>
    /\ progress_set = FALSE
    /\ progress_percent = 0
    /\ progress_stage = None
    /\ progress_stage_index = -1
    /\ pc = "idle"
    /\ req = NoCall
    /\ results = InitialResults
    /\ run_jd_keywords = <<>>
    /\ runs = 0
    /\ fn = None
    /\ fn_args \in SeqsUpTo(LineInputs, MaxLines)
    /\ fn_result = NoCall
    /\ returned_refs = {}

CallExtractSections ==
    /\ fn = None
    /\ fn' = "extract_sections"
    /\ fn_result' = extract_sections(fn_args)
    /\ UNCHANGED <<fn_args, session_vars, progress_vars, run_vars, caller_vars>>

NextSections == CallExtractSections

SpecSections == InitSections /\ [][NextSections]_vars

IsContentLine(lines, i) == lines[i].header = None /\ ~ lines[i].blank

\* Position of the last header line before line i, 0 when there is none.
LastHeaderBefore(lines, i) ==
    LET hs == { h \in 1 .. (i - 1) : lines[h].header # None }
    IN  IF hs = {} THEN 0 ELSE CHOOSE h \in hs : \A g \in hs : g <= h

\* C17: every line that is neither a header nor empty and follows a header
\* is in the returned content of the section of the last header before it;
\* a line before the first header is in no section's content.
C17_LinesGoToLastOpenedSection ==
    fn = "extract_sections" =>
        \A i \in DOMAIN fn_args :
            IsContentLine(fn_args, i) =>
                LET h == LastHeaderBefore(fn_args, i)
                IN  IF h = 0
                    THEN \A n \in SectionNames : i \notin Range(fn_result[n])
                    ELSE i \in Range(fn_result[fn_args[h].header])

(***************************************************************************)
(* The location detector on texts with up to MaxRiskMentions mentions,     *)
(* enough for the "more than 3 mentions" rule.                             *)
(***************************************************************************)
MaxRiskMentions == 5

RiskMentionInputs ==
    [type : {"gpe", "loc", "address", "zip"}, start : {10, 400}, near : {"other"}]

InitPrivacy ==
    /\ in_streamlit = FALSE
    /\ score_cache = <<>>
    /\ skill_validation_cache = <<>>
    /\ analysis_cache = <<>>
    /\ progress_set = FALSE
    /\ progress_percent = 0
    /\ progress_stage = None
    /\ progress_stage_index = -1
    /\ pc = "idle"
    /\ req = NoCall
    /\ results = InitialResults
    /\ run_jd_keywords = <<>>
    /\ runs = 0
    /\ fn = None
    /\ fn_args \in SeqsUpTo(RiskMentionInputs, MaxRiskMentions)
    /\ fn_result = NoCall
    /\ returned_refs = {}

CallDetectPrivacyRisk ==
    /\ fn = None
    /\ fn' = "_perform_location_detection"
    /\ fn_result' = _perform_location_detection(fn_args)
    /\ UNCHANGED <<fn_args, session_vars, progress_vars, run_vars, caller_vars>>

NextPrivacy == CallDetectPrivacyRisk

SpecPrivacy == InitPrivacy /\ [][NextPrivacy]_vars

Detected == fn = "_perform_location_detection"

HasType(mentions, t) == \E i \in DOMAIN mentions : mentions[i].type = t

\* C18: with U the unacceptable mentions the detector returns,
\* privacy_risk is 'high' when U holds an address
\* or a zip code, else 'medium' when U has more than 3 mentions, else
\* 'low' when U is not empty, else 'none'.
C18_RiskFromUnacceptableSet ==
    Detected =>
        LET U == fn_result.detected_locations
        IN  fn_result.privacy_risk =
                IF HasType(U, "address") \/ HasType(U, "zip") THEN "high"
                ELSE IF Len(U) > 3 THEN "medium"
                ELSE IF Len(U) > 0 THEN "low"
                ELSE "none"

\* C18 witness: five places, one of them in the header, give 'medium'.
C18_Witness_FourPlacesMedium ==
    /\ Detected
    /\ Len(fn_args) = 5
    /\ Len(fn_result.detected_locations) = 4
    /\ fn_result.privacy_risk = "medium"

\* C19: the penalty is 5 with both an address and a zip code among the
\* unacceptable mentions, 4 with one of the two kinds, 3 at medium risk, 2 at
\* low risk, 0 at no risk, and always within 0..5.
C19_PenaltyFromRiskAndKinds ==
    Detected =>
        LET U == fn_result.detected_locations
            risk == fn_result.privacy_risk
        IN  /\ fn_result.penalty_applied =
                 (IF HasType(U, "address") /\ HasType(U, "zip") THEN 5
                  ELSE IF HasType(U, "address") \/ HasType(U, "zip") THEN 4
                  ELSE IF risk = "medium" THEN 3
                  ELSE IF risk = "low" THEN 2
                  ELSE 0) * Pt
            /\ risk = "none" => fn_result.penalty_applied = 0
            /\ 0 <= fn_result.penalty_applied /\ fn_result.penalty_applied <= 5 * Pt

\* C19 witness: an address and a zip code together cost 5 points.
C19_Witness_AddressAndZipCostFive ==
    /\ Detected
    /\ HasType(fn_result.detected_locations, "address")
    /\ HasType(fn_result.detected_locations, "zip")
    /\ fn_result.penalty_applied = 5 * Pt

(***************************************************************************)
(* identify_missing_keywords called directly, with the default cap of 15   *)
(* that _perform_jd_comparison relies on.  The JD keyword lists are short  *)
(* lists in every order and case, and long lists, in the order the         *)
(* extractor ranked them, that have more keywords than the cap.            *)
(***************************************************************************)
MaxJdLength == 17

LongJdKeywords(n) == <<"Python", "AWS", "Docker">> \o SubSeq(Vocabulary, 4, n)

JdKeywordInputs ==
    SeqsUpTo({"Python", "python", "AWS", "sql"}, 2)
        \cup { LongJdKeywords(n) : n \in 14..MaxJdLength }

ResumeKeywordInputs == SeqsUpTo({"python", "aws", "sql", "kafka"}, 2)

InitMissing ==
    /\ in_streamlit = FALSE
    /\ score_cache = <<>>
    /\ skill_validation_cache = <<>>
    /\ analysis_cache = <<>>
    /\ progress_set = FALSE
    /\ progress_percent = 0
    /\ progress_stage = None
    /\ progress_stage_index = -1
    /\ pc = "idle"
    /\ req = NoCall
    /\ results = InitialResults
    /\ run_jd_keywords = <<>>
    /\ runs = 0
    /\ fn = None
    /\ fn_args \in [resume_keywords : ResumeKeywordInputs, jd_keywords : JdKeywordInputs]
    /\ fn_result = NoCall
    /\ returned_refs = {}

CallIdentifyMissingKeywords ==
    /\ fn = None
    /\ fn' = "identify_missing_keywords"
    /\ fn_result' = identify_missing_keywords(fn_args.resume_keywords, fn_args.jd_keywords, 15)
    /\ UNCHANGED <<fn_args, session_vars, progress_vars, run_vars, caller_vars>>

NextMissing == CallIdentifyMissingKeywords

SpecMissing == InitMissing /\ [][NextMissing]_vars

\* The positions of the JD keyword list whose keyword the resume lacks,
\* whatever the case.
AbsentPositions(args) ==
    { i \in DOMAIN args.jd_keywords :
        \A j \in DOMAIN args.resume_keywords :
            Lower(args.resume_keywords[j]) # Lower(args.jd_keywords[i]) }

\* The k-th of them, counted from the head of the JD keyword list.
KthAbsent(args, k) ==
    CHOOSE i \in AbsentPositions(args) :
        Cardinality({ j \in AbsentPositions(args) : j <= i }) = k

\* C20: the missing keywords are the JD keywords the resume lacks
\* (whatever the case), in the order of the JD keyword list, cut to the
\* first 15.
C20_MissingKeepsJdOrderWithinCap ==
    fn = "identify_missing_keywords" =>
        /\ Len(fn_result) <= 15
        /\ Len(fn_result) = Min(15, Cardinality(AbsentPositions(fn_args)))
        /\ \A k \in DOMAIN fn_result :
               fn_result[k] = fn_args.jd_keywords[KthAbsent(fn_args, k)]

\* C20 witness: a JD list with more than 15 keywords the resume lacks, and one
\* it has in another case, gives the first 15 lacking, in the JD order
\* ("AWS" before "docker" before "api").
C20_Witness_SixteenMissingCutToFifteen ==
    /\ fn = "identify_missing_keywords"
    /\ Cardinality(AbsentPositions(fn_args)) > 15
    /\ fn_args.jd_keywords[1] = "Python"
    /\ fn_args.resume_keywords = <<"python">>
    /\ Len(fn_result) = 15
    /\ fn_result[1] = "AWS"
    /\ fn_result[15] = fn_args.jd_keywords[16]

(***************************************************************************)
(* validate_skills_with_projects called directly: any list of skills       *)
(* (repeated ones and the empty string included), any list of projects,    *)
(* any experience text, with an embedder passed in or left to None, on a   *)
(* machine where the model is installed or not.                            *)
(***************************************************************************)
MaxSkills == 2

SkillInputs == { <<>>, <<"G", "o">>, <<"s", "q", "l">>, <<"R">> }

ProjectInputs ==
    { [title |-> <<"A", "P", "I">>, description |-> <<"g", "o">>],
      [title |-> ExperienceSection, description |-> <<"S", "Q", "L">>] }

ExperienceInputs == { <<>>, <<"s", "q", "l">>, <<"D", "j", "a", "n", "g", "o">> }

EmbedderInputs ==
    { [kind |-> "const", key |-> <<>>, hit |-> c, miss |-> c] : c \in {0 - 20, 59, 60} }
        \cup { [kind |-> "by_skill", key |-> k, hit |-> hm[1], miss |-> hm[2]] :
                 k \in SkillInputs \ { <<>> }, hm \in { <<100, 0>>, <<59, 60>> } }
        \cup { [kind |-> "by_text", key |-> k, hit |-> hm[1], miss |-> hm[2]] :
                 k \in ExperienceInputs \ { <<>> }, hm \in { <<100, 0>>, <<59, 60>> } }

InitSkills ==
    /\ in_streamlit \in BOOLEAN
    /\ score_cache = <<>>
    /\ skill_validation_cache = <<>>
    /\ analysis_cache = <<>>
    /\ progress_set = FALSE
    /\ progress_percent = 0
    /\ progress_stage = None
    /\ progress_stage_index = -1
    /\ pc = "idle"
    /\ req = NoCall
    /\ results = InitialResults
    /\ run_jd_keywords = <<>>
    /\ runs = 0
    /\ fn = None
    /\ fn_args \in [skills : SeqsUpTo(SkillInputs, MaxSkills),
                    projects : SeqsUpTo(ProjectInputs, 2),
                    experience : ExperienceInputs,
                    embedder : {NoneRec} \cup EmbedderInputs,
                    installed_model : {NoneRec, InstalledEmbedder}]
    /\ fn_result = NoCall
    /\ returned_refs = {}

CallValidateSkills ==
    /\ fn = None
    /\ LET call == validate_skills_with_projects(fn_args.skills, fn_args.projects,
                       fn_args.experience, fn_args.embedder, skill_validation_cache,
                       fn_args.installed_model)
       IN  /\ fn' = "validate_skills_with_projects"
           /\ fn_result' = call
           /\ skill_validation_cache' = call.cache
    /\ UNCHANGED <<fn_args, in_streamlit, analysis_cache, score_cache, progress_vars, run_vars, caller_vars>>

NextSkills == CallValidateSkills

SpecSkills == InitSkills /\ [][NextSkills]_vars

ValidatedCall == fn = "validate_skills_with_projects"

\* C21: for an empty skill list the call returns the all-zero result, and
\* neither load_embedder nor the embedder has been called.
C21_EmptySkillsNeedNoEmbedder ==
    (ValidatedCall /\ fn_args.skills = <<>>) =>
        /\ ~ fn_result.raised
        /\ fn_result.result =
               [validated_skills |-> <<>>, unvalidated_skills |-> <<>>,
                validation_percentage |-> 0, skill_project_mapping |-> << >>,
                validation_score |-> 0]
        /\ ~ fn_result.loaded
        /\ ~ fn_result.encoded

\* The skill, whatever the case, is a run of consecutive characters of the text.
OccursIn(skill, text) == str_contains(str_lower(text), str_lower(skill))

OccursInEvidence(skill, args) ==
    \/ \E i \in DOMAIN args.projects : OccursIn(skill, ProjectText(args.projects[i]))
    \/ OccursIn(skill, args.experience)

ReportedExact(skill, result) ==
    \E k \in DOMAIN result.validated_skills :
        /\ result.validated_skills[k].skill = skill
        /\ result.validated_skills[k].similarity = 100

CountIn(s, x) == Cardinality({ i \in DOMAIN s : s[i] = x })

ValidatedNames(result) ==
    [ k \in DOMAIN result.validated_skills |-> result.validated_skills[k].skill ]

\* C23: validation_score is (validated / total) * 15, and 0 for an empty
\* list; every listed skill, as many times as it is listed, is in exactly
\* one of validated_skills and unvalidated_skills, so that the two lengths
\* add up to the length of the skill list.
C23_ScoreIsValidatedShareOfFifteen ==
    (ValidatedCall /\ ~ fn_result.raised) =>
        LET skills == fn_args.skills
            r == fn_result.result
            validated == ValidatedNames(r)
        IN  /\ r.validation_score * Len(skills) = 15 * Pt * Len(validated)
            /\ skills = <<>> => r.validation_score = 0
            /\ Len(validated) + Len(r.unvalidated_skills) = Len(skills)
            /\ \A i \in DOMAIN skills :
                   /\ CountIn(validated, skills[i]) + CountIn(r.unvalidated_skills, skills[i])
                          = CountIn(skills, skills[i])
                   /\ CountIn(validated, skills[i]) = 0
                          \/ CountIn(r.unvalidated_skills, skills[i]) = 0

\* C23 witness: a validated skill listed twice is counted twice, for the
\* full 15 points.
C23_Witness_RepeatedSkillCountedTwice ==
    /\ ValidatedCall
    /\ ~ fn_result.raised
    /\ fn_args.skills = << <<"G", "o">>, <<"G", "o">> >>
    /\ Len(fn_result.result.validated_skills) = 2
    /\ fn_result.result.unvalidated_skills = <<>>
    /\ fn_result.result.validation_score = 15 * Pt

\* C24: the bonuses map has excellent_skill_validation (+2) exactly when the
\* validation percentage is >= 0.9, good_skill_validation (+1) exactly when
\* it is >= 0.8 and < 0.9, never both, perfect_grammar (+2) exactly when the
\* grammar error count is 0, and no other entry.
C24_BonusesByTierAndGrammar ==
    Scored =>
        LET p == fn_args.skill_validation_results.validation_percentage
            b == fn_result.bonuses
            Has(n, amount) == n \in DOMAIN b /\ b[n] = amount
        IN  /\ IF p >= 900 THEN Has("excellent_skill_validation", 2 * Pt)
               ELSE "excellent_skill_validation" \notin DOMAIN b
            /\ IF p >= 800 /\ p < 900 THEN Has("good_skill_validation", 1 * Pt)
               ELSE "good_skill_validation" \notin DOMAIN b
            /\ ~ ({"excellent_skill_validation", "good_skill_validation"} \subseteq DOMAIN b)
            /\ IF fn_args.grammar_results.total_errors = 0 THEN Has("perfect_grammar", 2 * Pt)
               ELSE "perfect_grammar" \notin DOMAIN b
            /\ DOMAIN b \subseteq
                   {"excellent_skill_validation", "good_skill_validation", "perfect_grammar"}

\* C24 witness: at exactly 0.9 with no grammar error the map holds the
\* upper tier and perfect_grammar, and nothing else.
C24_Witness_UpperTierAtNineTenths ==
    /\ Scored
    /\ fn_args.skill_validation_results.validation_percentage = 900
    /\ fn_args.grammar_results.total_errors = 0
    /\ DOMAIN fn_result.bonuses = {"excellent_skill_validation", "perfect_grammar"}

\* An update_progress call has just run with a stage name that
\* PROCESSING_STAGES does not have.
UpdatedUnknownStage == fn = "update_progress" /\ fn_args.stage_name \notin StageNames

\* C25: update_progress with a stage name that is not one of the defined
\* stages leaves the percent, the current stage and the stage index as they
\* were.
C25_UnknownStageChangesNothing ==
    [][UpdatedUnknownStage' =>
           /\ progress_percent' = progress_percent
           /\ progress_stage' = progress_stage
           /\ progress_stage_index' = progress_stage_index]_vars

\* C25 witness: an update for the unknown "Grammar Check" at 65% has left the
\* progress at 45%, in "Skill Validation".
C25_Witness_UnknownStageAfterSkillValidation ==
    /\ UpdatedUnknownStage
    /\ fn_args.percent = <<65>>
    /\ progress_percent = 45
    /\ progress_stage = "Skill Validation"
    /\ progress_stage_index = 3

(***************************************************************************)
(* The three session caches under a long run of stores.  The inputs of a   *)
(* call are those of resume A with a text of its own, numbered 1, 2, ...:  *)
(* a call brings either the next new text, or the text stored earliest, or *)
(* the one stored last.  No cache reads another, and a session is followed *)
(* one cache at a time.                                                    *)
(***************************************************************************)
MaxStoreKeys == 22
MaxAnalysisKeys == 12

\* The arguments run_analysis builds for the k-th text of the session.
ArgsOfText(k) ==
    LET a == ArgsOfResume("resume_a.pdf", <<>>)
    IN  [a EXCEPT !.text = [@ EXCEPT !.id = k],
                  !.experience = [ i \in 1..k |-> "x" ]]

\* The number of the text an entry was stored for.
TextOfEntry(cache_name, entry) ==
    CASE cache_name = "score_cache" -> entry.key[2]
      [] cache_name = "skill_validation_cache" -> Len(entry.key[4])
      [] OTHER -> entry.key

TextChoices(cache_name, cache) ==
    IF cache = <<>> THEN {1}
    ELSE LET stored == { TextOfEntry(cache_name, cache[i]) : i \in DOMAIN cache }
             newest == CHOOSE k \in stored : \A j \in stored : j <= k
         IN  { TextOfEntry(cache_name, cache[1]), TextOfEntry(cache_name, cache[Len(cache)]) }
                 \cup { k \in {newest + 1} :
                            k <= IF cache_name = "analysis_cache" THEN MaxAnalysisKeys
                                 ELSE MaxStoreKeys }

InitStores ==
    /\ in_streamlit = TRUE
    /\ score_cache = <<>>
    /\ skill_validation_cache = <<>>
    /\ analysis_cache = <<>>
    /\ progress_set = FALSE
    /\ progress_percent = 0
    /\ progress_stage = None
    /\ progress_stage_index = -1
    /\ pc = "idle"
    /\ req = NoCall
    /\ results = InitialResults
    /\ run_jd_keywords = <<>>
    /\ runs = 0
    /\ fn = None
    /\ fn_args = NoCall
    /\ fn_result = NoCall
    /\ returned_refs = {}

StoreScore ==
    /\ skill_validation_cache = <<>> /\ analysis_cache = <<>>
    /\ \E k \in TextChoices("score_cache", score_cache) :
            LET a == ArgsOfText(k)
                call == calculate_overall_score(a.text, a.sections, a.skills, a.keywords,
                            a.action_verbs, a.skill_validation_results, a.grammar_results,
                            a.location_results, a.jd_keywords, score_cache)
            IN  /\ score_cache' = call.cache
                /\ fn' = "calculate_overall_score"
                /\ fn_args' = [cache_key |-> ScoreCacheKey(a.text, a.skills, a.keywords,
                                                           a.jd_keywords)]
                /\ fn_result' = call.result
                /\ UNCHANGED <<in_streamlit, analysis_cache, skill_validation_cache, progress_vars,
                               run_vars, caller_vars>>

StoreSkillValidation ==
    /\ score_cache = <<>> /\ analysis_cache = <<>>
    /\ \E k \in TextChoices("skill_validation_cache", skill_validation_cache) :
            LET a == ArgsOfText(k)
                call == validate_skills_with_projects(a.skills, a.projects, a.experience,
                            a.embedder, skill_validation_cache, InstalledEmbedder)
            IN  /\ skill_validation_cache' = call.cache
                /\ fn' = "validate_skills_with_projects"
                /\ fn_args' = [cache_key |-> SkillCacheKey(a.skills, a.projects, a.experience)]
                /\ fn_result' = call.result
                /\ UNCHANGED <<in_streamlit, analysis_cache, score_cache, progress_vars, run_vars,
                               caller_vars>>

StoreAnalysisResults ==
    /\ score_cache = <<>> /\ skill_validation_cache = <<>>
    /\ \E k \in TextChoices("analysis_cache", analysis_cache) :
            /\ analysis_cache' = store_analysis_results(analysis_cache, k, ComputedScore(ArgsOfText(k)))
            /\ fn' = "store_analysis_results"
            /\ fn_args' = [cache_key |-> k]
            /\ fn_result' = NoCall
            /\ UNCHANGED <<in_streamlit, score_cache, skill_validation_cache, progress_vars,
                           run_vars, caller_vars>>

NextStores == StoreScore \/ StoreSkillValidation \/ StoreAnalysisResults

SpecStores == InitStores /\ [][NextStores]_vars

\* A store of cache_key took the cache from old to new: the entry stored can
\* be retrieved, and an entry that is gone was the one inserted earliest,
\* dropped because the cache had reached its limit.
StoredWithinLimit(old, new, cache_key, limit) ==
    /\ Len(new) <= limit
    /\ CacheHas(new, cache_key)
    /\ \A i \in DOMAIN old :
           ~ CacheHas(new, old[i].key) => (i = 1 /\ Len(old) >= limit)
    /\ (Len(old) >= limit /\ ~ CacheHas(old, cache_key)) => ~ CacheHas(new, old[1].key)

\* C26: whatever the stores, the score cache and the skill-validation cache
\* hold at most 20 entries and the analysis-results cache at most 10; a store
\* that finds its cache at the limit drops the entry inserted earliest and no
\* other, and the entry just stored can be retrieved.
C26_CachesBoundedOldestEvicted ==
    [][/\ fn' = "calculate_overall_score" =>
              StoredWithinLimit(score_cache, score_cache', fn_args'.cache_key, 20)
       /\ fn' = "validate_skills_with_projects" =>
              StoredWithinLimit(skill_validation_cache, skill_validation_cache',
                                fn_args'.cache_key, 20)
       /\ fn' = "store_analysis_results" =>
              /\ StoredWithinLimit(analysis_cache, analysis_cache', fn_args'.cache_key, 10)
              /\ get_cached_analysis_results(analysis_cache', fn_args'.cache_key) # NoneRec]_vars

\* C26 witness: the 22nd text has been scored; the cache holds 20 entries, the
\* scores of the texts 3 to 22.
C26_Witness_TwoOldestScoresEvicted ==
    /\ fn = "calculate_overall_score"
    /\ Len(score_cache) = 20
    /\ TextOfEntry("score_cache", score_cache[1]) = 3
    /\ TextOfEntry("score_cache", score_cache[20]) = 22
    /\ fn_args.cache_key = score_cache[20].key

\* C27: a step that is not initialize_progress never lowers
\* progress_stage_index, whatever update_progress and complete_progress
\* calls are made.
C27_StageIndexNeverDecreases ==
    [][fn' # "initialize_progress" => progress_stage_index' >= progress_stage_index]_vars

\* C28: once the page has dealt with an analysis that returned
\* success == false, the progress state does not show completion
\* (100%, stage 'Generating Results').
C28_CompleteOnlyAfterSuccess ==
    (pc = "idle" /\ runs > 0 /\ ~ results.success) =>
        ~ (progress_percent = 100 /\ progress_stage = "Generating Results")

\* C29: when location detection degraded to the neutral default, no message
\* of the location feedback reports a high privacy risk.
C29_DegradedLocationNotHighRisk ==
    (Returned /\ results.success /\ StatusOf("location_detection") = "degraded") =>
        \A i \in DOMAIN results.location_feedback :
            results.location_feedback[i].text # RiskSummary("high", 0).text

\* C30: an analysis whose grammar result is the 'unavailable' neutral
\* substitute does not get the perfect_grammar bonus in its scores.
C30_NoGrammarBonusWithoutCheck ==
    (Returned /\ results.success
        /\ results.grammar_results._component_status = "unavailable") =>
        "perfect_grammar" \notin DOMAIN results.scores.bonuses

====
